---- MODULE Spec2Model ----
(***************************************************************************)
(* A model of the Blightmud core: the command buffer of the input thread   *)
(* (src/src/ui/command.rs), the script host (src/src/lua/lua_script.rs)    *)
(* and the session (src/src/session.rs).                                   *)
(*                                                                         *)
(* A Rust String is modelled as the sequence of its UTF-8 bytes, a         *)
(* Vec<char> as the sequence of its code points, so that String::len       *)
(* (bytes) and Vec::len (chars) differ on multi-byte text.                 *)
(***************************************************************************)
EXTENDS Integers, Sequences, FiniteSets, TLC

VARIABLES
    \* CommandBuffer (command.rs:57-67)
    strbuf,            \* String: bytes of the last get_buffer()
    buffer,            \* Vec<char>
    cached_buffer,     \* Vec<char>
    draft,             \* the buffer navigation left at the history bottom, and
                       \* whether a submit came after it was cached
    history,           \* VecDeque<String>
    current_index,     \* usize
    cursor_pos,        \* usize
    completion_tree,   \* CompletionTree: the set of inserted words (Vec<char>)
    completion,        \* CompletionStepData: [options, index, base]
    input_panicked,    \* the input thread died of a panic (slice/drain out of range)
    last_op,           \* the CommandBuffer method that ran last: what it returned and
                       \* how many history entries it dropped (pop_front)
    nsubmit,           \* number of non-empty submits so far (bounded)
    parsed,            \* the last message given to parse_command and the event it made
    \* The script host's mutex (Arc<Mutex<LuaScript>>) and the threads that take it
    script_lock,       \* the thread holding the mutex, or "free"
    script_poisoned,   \* a thread panicked holding the mutex
    lock_pc,           \* where the input thread and the main thread are in their handlers
    ui_batch,          \* how many UI events of get_ui_events() are still to be applied
    \* LuaScript (lua_script.rs:10-14) and the tables of its Lua state
    trigger_table,         \* TRIGGER_TABLE: a set of Trigger records
    prompt_trigger_table,  \* PROMPT_TRIGGER_TABLE: a set of Trigger records
    next_trigger_id,       \* the id the next add_trigger returns
    gmcp_listener_table,   \* GMCP_LISTENER_TABLE: a set of [type, fails]
    on_connect_cb,         \* the global on-connection callback: "none", "ok", "err"
    on_connect_triggered,  \* LuaScript.on_connect_triggered
    main_panicked,         \* the thread running the script host died of a panic
    last_call,             \* the host call that ran last: its input and what it did
    link_up,               \* the main loop's view of the connection (Idle / Connected)
    link_edges,            \* Idle -> Connected transitions so far
    hook_runs,             \* invocations of the on-connection callback so far
    alias_table,           \* ALIAS_TABLE: a set of Alias records
    next_alias_id,         \* the id the next add_alias returns
    timed_func_table,      \* TIMED_FUNCTION_TABLE: a set of [id, fails]
    next_timer_id,         \* the id the next add_timer returns
    on_gmcp_ready_cb,      \* the global on-gmcp-ready callback: "none", "ok", "err"
    \* Session (session.rs:15-26)
    sess_endpoint,     \* host:port of each thread's clone of the session
    connected,         \* Arc<AtomicBool>
    stream,            \* Arc<Mutex<Option<TcpStream>>>: the socket in the slot, or NoSocket
    stream_lock,       \* the thread holding the slot's mutex, or "free"
    stream_poisoned,   \* a thread panicked holding the slot's mutex
    sockets,           \* the TCP sockets opened so far: [endpoint, state]
    bus,               \* the events sent through main_thread_writer
    prompt,            \* output_buffer.prompt
    pc,                \* where each thread is in connect / disconnect
    local_stream,      \* the local `stream` of each thread's connect
    call               \* each thread's current or last call and the state it began in

cmdVars == <<strbuf, buffer, cached_buffer, draft, history, current_index, cursor_pos,
             completion_tree, completion, input_panicked, last_op, nsubmit, parsed,
             script_lock, script_poisoned, lock_pc, ui_batch>>

keyVars == <<script_lock, script_poisoned, lock_pc, ui_batch>>

luaVars == <<trigger_table, prompt_trigger_table, next_trigger_id, gmcp_listener_table,
             on_connect_cb, on_connect_triggered, main_panicked, last_call,
             link_up, link_edges, hook_runs,
             alias_table, next_alias_id, timed_func_table, next_timer_id, on_gmcp_ready_cb>>

\* The tables of the Lua state besides the triggers and the GMCP listeners.
ruleVars == <<alias_table, next_alias_id, timed_func_table, next_timer_id, on_gmcp_ready_cb>>

sessVars == <<sess_endpoint, connected, stream, stream_lock, stream_poisoned, sockets, bus,
              prompt, pc, local_stream, call>>

vars == <<cmdVars, luaVars, sessVars>>

-----------------------------------------------------------------------------
(* Bounds *)

\* Longest line the user types with push_key.
MaxLen == 2
\* Number of non-empty submits in one run.
MaxSubmits == 1
\* Longest command submitted in a run of the whole key set.
MaxSubmitLen == 1

\* const MAX_HISTORY: usize = 100;
MAX_HISTORY == 100
\* completion.set_min_word_len(3)
MinWordLen == 3

\* Code points the user types: 'a' (1 byte in UTF-8), U+00F8 (2 bytes), ' '.
CharA == 97
CharOSlash == 248
CharSpace == 32
Chars == {CharA, CharOSlash}

-----------------------------------------------------------------------------
(* Sequences *)

Take(s, n) == SubSeq(s, 1, n)
Drop(s, n) == SubSeq(s, n + 1, Len(s))
Min2(a, b) == IF a < b THEN a ELSE b
Max2(a, b) == IF a > b THEN a ELSE b
SetMin(S) == CHOOSE x \in S : \A y \in S : x <= y
SetMax(S) == CHOOSE x \in S : \A y \in S : x >= y

\* Vec::remove(i), Vec::insert(i, c), Vec::drain(a..b) with 0-based indices.
VecRemove(v, i) == Take(v, i) \o Drop(v, i + 1)
VecInsert(v, i, c) == Take(v, i) \o <<c>> \o Drop(v, i)
VecDrain(v, a, b) == Take(v, a) \o Drop(v, b)

-----------------------------------------------------------------------------
(* UTF-8: String <-> chars *)

\* char::encode_utf8 for code points below U+0800.
Utf8Encode(c) == IF c < 128 THEN <<c>> ELSE <<192 + (c \div 64), 128 + (c % 64)>>

\* Vec<char> -> String (buffer.iter().collect()).
RECURSIVE CharsToString(_)
CharsToString(v) ==
    IF v = <<>> THEN <<>> ELSE Utf8Encode(Head(v)) \o CharsToString(Tail(v))

\* String -> Vec<char> (s.chars().collect()), for well-formed UTF-8.
RECURSIVE StringChars(_)
StringChars(s) ==
    IF s = <<>> THEN <<>>
    ELSE IF s[1] < 128 THEN <<s[1]>> \o StringChars(Tail(s))
    ELSE <<(s[1] - 192) * 64 + (s[2] - 128)>> \o StringChars(Tail(Tail(s)))

\* String::len(): the number of bytes.
StrLen(s) == Len(s)

-----------------------------------------------------------------------------
(* rs_complete::CompletionTree, as command.rs uses it: words of at least   *)
(* MinWordLen characters are inserted; complete(line) extends the last     *)
(* word of the line to every inserted word it is a proper prefix of.       *)

\* str::split_whitespace over the chars of a line.
RECURSIVE SplitWords(_, _)
SplitWords(v, cur) ==
    IF v = <<>> THEN (IF cur = <<>> THEN <<>> ELSE <<cur>>)
    ELSE IF Head(v) = CharSpace
         THEN (IF cur = <<>> THEN <<>> ELSE <<cur>>) \o SplitWords(Tail(v), <<>>)
         ELSE SplitWords(Tail(v), Append(cur, Head(v)))

Words(v) == SplitWords(v, <<>>)

\* CompletionTree::insert(line)
TreeInsert(tree, s) ==
    LET ws == Words(StringChars(s))
    IN tree \cup {ws[i] : i \in {j \in 1..Len(ws) : Len(ws[j]) >= MinWordLen}}

IsProperPrefix(p, w) == Len(p) < Len(w) /\ Take(w, Len(p)) = p

\* Lexicographic order on char sequences, the order the tree lists words in.
RECURSIVE LexLess(_, _)
LexLess(a, b) ==
    IF a = <<>> THEN b # <<>>
    ELSE IF b = <<>> THEN FALSE
    ELSE IF Head(a) # Head(b) THEN Head(a) < Head(b)
    ELSE LexLess(Tail(a), Tail(b))

RECURSIVE SortedSeq(_)
SortedSeq(S) ==
    IF S = {} THEN <<>>
    ELSE LET m == CHOOSE x \in S : \A y \in S \ {x} : LexLess(x, y)
         IN <<m>> \o SortedSeq(S \ {m})

\* CompletionTree::complete(line): <<>> stands for None, else the options
\* (each the line followed by the rest of a word), as Strings.
TreeComplete(tree, s) ==
    LET v == StringChars(s)
        ws == Words(v)
    IN IF ws = <<>> \/ v[Len(v)] = CharSpace THEN <<>>
       ELSE LET last == ws[Len(ws)]
                hits == SortedSeq({w \in tree : IsProperPrefix(last, w)})
            IN [i \in 1..Len(hits) |-> s \o CharsToString(Drop(hits[i], Len(last)))]

-----------------------------------------------------------------------------
(* CompletionStepData (command.rs:24-55) *)

EmptyCompletion == [options |-> <<>>, index |-> 0, base |-> <<>>]

CompletionIsEmpty(c) == c.options = <<>>

CompletionSetOptions(c, base, options) == [c EXCEPT !.options = options, !.base = base]

CompletionClear(c) == [c EXCEPT !.options = <<>>, !.index = 0]

\* A next() whose index wraps over the options alone.
CompletionNextSkipsBase(c) ==
    IF ~CompletionIsEmpty(c)
    THEN [c EXCEPT !.index = (c.index + 1) % Len(c.options)]
    ELSE c

\* next(): the step's state afterwards, and the value returned (when not empty).
CompletionNextState(c) ==
    IF ~CompletionIsEmpty(c)
    THEN [c EXCEPT !.index = (c.index + 1) % (Len(c.options) + 1)]
    ELSE c

CompletionNextValue(c) ==
    IF c.index < Len(c.options) THEN c.options[c.index + 1] ELSE c.base

\* The threads that lock the script host.
LockThreads == {"input", "main"}

-----------------------------------------------------------------------------
(* CommandBuffer (command.rs:69-273) *)

Alive == ~input_panicked

Ran(op) == [op |-> op, ret |-> <<>>, dropped |-> 0]

\* The draft: nothing kept, kept since the last submit ("fresh"), kept from
\* before a submit ("stale"), or put back by next ("restored"); staled
\* remembers that some draft was overtaken by a submit.
NoDraft == [kept |-> "none", chars |-> <<>>, staled |-> FALSE]

DraftAfterPrevious(d, bottom, buf) ==
    IF bottom THEN [d EXCEPT !.kept = "fresh", !.chars = buf] ELSE d

DraftAfterSubmit(d) ==
    IF d.kept = "fresh" THEN [d EXCEPT !.kept = "stale", !.staled = TRUE] ELSE d

Panic(op) ==
    /\ input_panicked' = TRUE
    /\ last_op' = Ran(op)
    /\ UNCHANGED <<strbuf, buffer, cached_buffer, draft, history, current_index, cursor_pos,
                   completion_tree, completion, nsubmit>>

\* get_buffer
get_buffer ==
    /\ Alive
    /\ strbuf' = CharsToString(buffer)
    /\ last_op' = [op |-> "get_buffer", ret |-> CharsToString(buffer), dropped |-> 0]
    /\ UNCHANGED <<buffer, cached_buffer, draft, history, current_index, cursor_pos,
                   completion_tree, completion, input_panicked, nsubmit>>

\* Mutant of HistoryPush: no comparison with the last entry.
HistoryPushAlways(h, command) == Append(h, command)

\* The history after submit of a non-empty command.
HistoryPush(h, command) ==
    IF h # <<>> /\ h[Len(h)] = command THEN h ELSE Append(h, command)

RECURSIVE HistoryTrim(_)
HistoryTrim(h) == IF Len(h) > MAX_HISTORY THEN HistoryTrim(Tail(h)) ELSE h

SubmitHistory(h, command) == HistoryTrim(HistoryPush(h, command))

\* A submit that leaves the history index where navigation put it.
submit_keeps_index ==
    /\ Alive
    /\ IF buffer # <<>>
       THEN LET command == CharsToString(buffer)
            IN /\ nsubmit' = nsubmit + 1
               /\ strbuf' = command
               /\ completion_tree' = TreeInsert(completion_tree, command)
               /\ history' = SubmitHistory(history, command)
               /\ last_op' = [op |-> "submit", ret |-> command,
                               dropped |-> Len(HistoryPush(history, command)) - Len(history')]
       ELSE /\ last_op' = Ran("submit")
            /\ UNCHANGED <<nsubmit, strbuf, completion_tree, history>>
    /\ buffer' = <<>>
    /\ cursor_pos' = 0
    /\ draft' = DraftAfterSubmit(draft)
    /\ UNCHANGED <<current_index, cached_buffer, completion, input_panicked>>

\* A submit that takes the history index before the history is trimmed.
submit_indexes_untrimmed ==
    /\ Alive
    /\ IF buffer # <<>>
       THEN LET command == CharsToString(buffer)
            IN /\ nsubmit' = nsubmit + 1
               /\ strbuf' = command
               /\ completion_tree' = TreeInsert(completion_tree, command)
               /\ history' = SubmitHistory(history, command)
               /\ current_index' = Len(HistoryPush(history, command))
               /\ last_op' = [op |-> "submit", ret |-> command,
                               dropped |-> Len(HistoryPush(history, command)) - Len(history')]
       ELSE /\ last_op' = Ran("submit")
            /\ current_index' = Len(history)
            /\ UNCHANGED <<nsubmit, strbuf, completion_tree, history>>
    /\ buffer' = <<>>
    /\ cursor_pos' = 0
    /\ draft' = DraftAfterSubmit(draft)
    /\ UNCHANGED <<cached_buffer, completion, input_panicked>>

\* submit
submit ==
    /\ Alive
    /\ IF buffer # <<>>
       THEN LET command == CharsToString(buffer)
            IN /\ nsubmit' = nsubmit + 1
               /\ strbuf' = command
               /\ completion_tree' = TreeInsert(completion_tree, command)
               /\ history' = SubmitHistory(history, command)
               /\ last_op' = [op |-> "submit", ret |-> command,
                               dropped |-> Len(HistoryPush(history, command)) - Len(history')]
       ELSE /\ last_op' = Ran("submit")
            /\ UNCHANGED <<nsubmit, strbuf, completion_tree, history>>
    /\ current_index' = Len(history')
    /\ buffer' = <<>>
    /\ cursor_pos' = 0
    /\ draft' = DraftAfterSubmit(draft)
    /\ UNCHANGED <<cached_buffer, completion, input_panicked>>

MoveLeft(pos) == IF pos > 0 THEN pos - 1 ELSE pos
MoveRight(pos, len) == IF pos < len THEN pos + 1 ELSE pos

CursorOnly(op, pos) ==
    /\ cursor_pos' = pos
    /\ last_op' = Ran(op)
    /\ UNCHANGED <<strbuf, buffer, cached_buffer, draft, history, current_index,
                   completion_tree, completion, input_panicked, nsubmit>>

Edit(op, buf, pos) ==
    /\ buffer' = buf
    /\ cursor_pos' = pos
    /\ last_op' = Ran(op)
    /\ UNCHANGED <<strbuf, cached_buffer, draft, history, current_index,
                   completion_tree, completion, input_panicked, nsubmit>>

move_left == Alive /\ CursorOnly("move_left", MoveLeft(cursor_pos))

move_right == Alive /\ CursorOnly("move_right", MoveRight(cursor_pos, Len(buffer)))

move_to_start == Alive /\ CursorOnly("move_to_start", 0)

move_to_end == Alive /\ CursorOnly("move_to_end", Len(buffer))

\* The cursor move_word_right leaves (it cannot panic: origin <= len).
WordRight(buf, pos) ==
    LET origin == Min2(pos + 1, Len(buf))
        spaces == {i \in origin..(Len(buf) - 1) : buf[i + 1] = CharSpace}
    IN IF spaces # {} THEN SetMin(spaces) ELSE Len(buf)

\* move_word_left slices buffer[0..origin]: a panic when origin > len.
WordLeftPanics(buf, pos) == Max2(pos, 1) - 1 > Len(buf)

WordLeft(buf, pos) ==
    LET origin == Max2(pos, 1) - 1
        spaces == {i \in 0..(origin - 1) : buf[i + 1] = CharSpace}
    IN IF spaces # {} THEN SetMax(spaces) + 1 ELSE 0

move_word_right == Alive /\ CursorOnly("move_word_right", WordRight(buffer, cursor_pos))

move_word_left ==
    /\ Alive
    /\ IF WordLeftPanics(buffer, cursor_pos)
       THEN Panic("move_word_left")
       ELSE CursorOnly("move_word_left", WordLeft(buffer, cursor_pos))

\* Vec::drain(a..b) panics when a > b or b > len.
DrainPanics(buf, a, b) == a > b \/ b > Len(buf)

delete_to_end ==
    /\ Alive
    /\ IF DrainPanics(buffer, cursor_pos, Len(buffer))
       THEN Panic("delete_to_end")
       ELSE Edit("delete_to_end", VecDrain(buffer, cursor_pos, Len(buffer)), cursor_pos)

delete_from_start ==
    /\ Alive
    /\ IF DrainPanics(buffer, 0, cursor_pos)
       THEN Panic("delete_from_start")
       ELSE Edit("delete_from_start", VecDrain(buffer, 0, cursor_pos), 0)

delete_right ==
    /\ Alive
    /\ IF cursor_pos < Len(buffer)
       THEN Edit("delete_right", VecRemove(buffer, cursor_pos), cursor_pos)
       ELSE Edit("delete_right", buffer, cursor_pos)

delete_word_right ==
    /\ Alive
    /\ LET origin == cursor_pos
           target == WordRight(buffer, cursor_pos)
       IN IF origin # target
          THEN IF DrainPanics(buffer, origin, target)
               THEN Panic("delete_word_right")
               ELSE Edit("delete_word_right", VecDrain(buffer, origin, target), origin)
          ELSE Edit("delete_word_right", buffer, target)

delete_word_left ==
    /\ Alive
    /\ IF WordLeftPanics(buffer, cursor_pos)
       THEN Panic("delete_word_left")
       ELSE LET origin == cursor_pos
                target == WordLeft(buffer, cursor_pos)
            IN IF origin # target
               THEN IF DrainPanics(buffer, target, origin)
                    THEN Panic("delete_word_left")
                    ELSE Edit("delete_word_left", VecDrain(buffer, target, origin), target)
               ELSE Edit("delete_word_left", buffer, target)

\* remove (backspace)
RemoveBuffer(buf, pos) ==
    IF pos > 0
    THEN IF pos < Len(buf) THEN VecRemove(buf, pos - 1)
         ELSE IF buf = <<>> THEN buf ELSE Take(buf, Len(buf) - 1)
    ELSE buf

RemoveCursor(buf, pos) == IF pos > 0 THEN MoveLeft(pos) ELSE pos

remove ==
    /\ Alive
    /\ Edit("remove", RemoveBuffer(buffer, cursor_pos), RemoveCursor(buffer, cursor_pos))

\* push_key(c)
PushBuffer(buf, pos, c) ==
    IF pos >= Len(buf) THEN Append(buf, c) ELSE VecInsert(buf, pos, c)

push_key(c) ==
    /\ Alive
    /\ buffer' = PushBuffer(buffer, cursor_pos, c)
    /\ completion' = CompletionClear(completion)
    /\ cursor_pos' = MoveRight(cursor_pos, Len(buffer'))
    /\ last_op' = Ran("push_key")
    /\ UNCHANGED <<strbuf, cached_buffer, draft, history, current_index, completion_tree,
                   input_panicked, nsubmit>>

\* The completion step tab_complete cycles, after the query of the tree.
TabOptions(c, tree, sb) ==
    IF CompletionIsEmpty(c)
    THEN LET options == TreeComplete(tree, sb)
         IN IF options # <<>> THEN CompletionSetOptions(c, sb, options) ELSE c
    ELSE c

\* The cursor tab_complete leaves after it put comp into the buffer.
TabCursor(comp) == StrLen(comp)

tab_complete ==
    /\ Alive
    /\ IF Len(buffer) > 1
       THEN LET c1 == TabOptions(completion, completion_tree, strbuf)
            IN /\ completion' = CompletionNextState(c1)
               /\ IF ~CompletionIsEmpty(c1)
                  THEN LET comp == CompletionNextValue(c1)
                       IN /\ buffer' = StringChars(comp)
                          /\ cursor_pos' = TabCursor(comp)
                  ELSE UNCHANGED <<buffer, cursor_pos>>
       ELSE UNCHANGED <<completion, buffer, cursor_pos>>
    /\ last_op' = Ran("tab_complete")
    /\ UNCHANGED <<strbuf, cached_buffer, draft, history, current_index, completion_tree,
                   input_panicked, nsubmit>>

\* A previous that never saves the draft.
PreviousCacheStale == cached_buffer

\* A previous that saves the buffer on every call.
PreviousCacheAlways == buffer

\* previous, lines 235-237: the draft is saved when leaving the bottom.
PreviousCache == IF current_index = Len(history) THEN buffer ELSE cached_buffer

\* previous; last_op keeps the draft and whether the call began at the bottom.
previous ==
    /\ Alive
    /\ IF history # <<>>
       THEN /\ cached_buffer' = PreviousCache
            /\ draft' = DraftAfterPrevious(draft, current_index = Len(history), buffer)
            /\ current_index' = IF current_index > 0 THEN current_index - 1 ELSE current_index
            /\ buffer' = StringChars(history[current_index' + 1])
            /\ cursor_pos' = Len(buffer')
       ELSE UNCHANGED <<cached_buffer, draft, current_index, buffer, cursor_pos>>
    /\ last_op' = [op |-> "previous", ret |-> <<>>, dropped |-> 0,
                   bottom |-> current_index = Len(history), draft |-> buffer]
    /\ UNCHANGED <<strbuf, history, completion_tree, completion, input_panicked, nsubmit>>

\* next; last_op keeps the call that ran just before.
next ==
    /\ Alive
    /\ LET new_index ==
               IF current_index < Len(history) THEN current_index + 1 ELSE current_index
       IN IF new_index # current_index
          THEN /\ current_index' = new_index
               /\ IF new_index = Len(history)
                  THEN /\ buffer' = cached_buffer
                       /\ draft' = [draft EXCEPT !.kept = "restored"]
                       /\ cached_buffer' = <<>>
                  ELSE /\ buffer' = StringChars(history[new_index + 1])
                       /\ UNCHANGED <<cached_buffer, draft>>
          ELSE UNCHANGED <<current_index, buffer, cached_buffer, draft>>
    /\ cursor_pos' = Len(buffer')
    /\ last_op' = [op |-> "next", ret |-> <<>>, dropped |-> 0,
                   after |-> IF last_op.op = "previous" THEN last_op ELSE Ran(last_op.op)]
    /\ UNCHANGED <<strbuf, history, completion_tree, completion, input_panicked, nsubmit>>

-----------------------------------------------------------------------------
(* LuaScript (lua_script.rs) *)

\* Triggers added, GMCP payload length, connections in one run.
MaxTriggers == 2
MaxGmcpLen == 4
MaxEdges == 3

\* Regexes of the rules: "^test$" and "test"; a line is its sequence of words.
Patterns == { [anchored |-> TRUE, word |-> "test"], [anchored |-> FALSE, word |-> "test"] }
LineTexts == { <<"test">>, <<"test", "test">>, <<"look">> }

\* Regex::is_match on the clean line.
IsMatch(pattern, text) ==
    IF pattern.anchored THEN text = <<pattern.word>>
    ELSE \E i \in 1..Len(text) : text[i] = pattern.word

NoCall == [fn |-> "none"]

\* create_default_lua_state: empty tables, no callbacks.
LuaStateNew ==
    /\ trigger_table = {}
    /\ prompt_trigger_table = {}
    /\ next_trigger_id = 1
    /\ gmcp_listener_table = {}
    /\ on_connect_cb = "none"
    /\ alias_table = {}
    /\ next_alias_id = 1
    /\ timed_func_table = {}
    /\ next_timer_id = 1
    /\ on_gmcp_ready_cb = "none"

\* LuaScript::new
LuaNew ==
    /\ LuaStateNew
    /\ on_connect_triggered = FALSE
    /\ main_panicked = FALSE
    /\ last_call = NoCall
    /\ link_up = FALSE
    /\ link_edges = 0
    /\ hook_runs = 0

MainAlive == ~main_panicked

\* A reset that builds a new Lua state and leaves the latch as it was.
reset_keeps_latch ==
    /\ MainAlive
    /\ trigger_table' = {}
    /\ prompt_trigger_table' = {}
    /\ next_trigger_id' = 1
    /\ gmcp_listener_table' = {}
    /\ on_connect_cb' = "none"
    /\ alias_table' = {}
    /\ next_alias_id' = 1
    /\ timed_func_table' = {}
    /\ next_timer_id' = 1
    /\ on_gmcp_ready_cb' = "none"
    /\ last_call' = [fn |-> "reset"]
    /\ UNCHANGED <<on_connect_triggered, main_panicked, link_up, link_edges, hook_runs>>

\* reset
reset ==
    /\ MainAlive
    /\ on_connect_triggered' = FALSE
    /\ trigger_table' = {}
    /\ prompt_trigger_table' = {}
    /\ next_trigger_id' = 1
    /\ gmcp_listener_table' = {}
    /\ on_connect_cb' = "none"
    /\ alias_table' = {}
    /\ next_alias_id' = 1
    /\ timed_func_table' = {}
    /\ next_timer_id' = 1
    /\ on_gmcp_ready_cb' = "none"
    /\ last_call' = [fn |-> "reset"]
    /\ UNCHANGED <<main_panicked, link_up, link_edges, hook_runs>>

\* blight:add_trigger(pattern, {gag, prompt}, fn): fails says whether fn raises.
add_trigger(pattern, gag, is_prompt, fails) ==
    /\ MainAlive
    /\ LET t == [id |-> next_trigger_id, pattern |-> pattern, enabled |-> TRUE,
                 gag |-> gag, prompt |-> is_prompt, fails |-> fails]
       IN IF is_prompt
          THEN /\ prompt_trigger_table' = prompt_trigger_table \cup {t}
               /\ UNCHANGED trigger_table
          ELSE /\ trigger_table' = trigger_table \cup {t}
               /\ UNCHANGED prompt_trigger_table
    /\ next_trigger_id' = next_trigger_id + 1
    /\ last_call' = [fn |-> "add_trigger", id |-> next_trigger_id]
    /\ UNCHANGED <<gmcp_listener_table, on_connect_cb, on_connect_triggered, main_panicked,
                   link_up, link_edges, hook_runs>>
    /\ UNCHANGED ruleVars

\* A removal that looks in the table of line triggers only.
remove_line_trigger_only(id) ==
    /\ MainAlive
    /\ trigger_table' = {t \in trigger_table : t.id # id}
    /\ last_call' = [fn |-> "remove_trigger", id |-> id]
    /\ UNCHANGED <<prompt_trigger_table, next_trigger_id, gmcp_listener_table, on_connect_cb,
                   on_connect_triggered, main_panicked, link_up, link_edges, hook_runs>>
    /\ UNCHANGED ruleVars

\* blight:remove_trigger(id): from whichever table owns the id.
remove_trigger(id) ==
    /\ MainAlive
    /\ trigger_table' = {t \in trigger_table : t.id # id}
    /\ prompt_trigger_table' = {t \in prompt_trigger_table : t.id # id}
    /\ last_call' = [fn |-> "remove_trigger", id |-> id]
    /\ UNCHANGED <<next_trigger_id, gmcp_listener_table, on_connect_cb, on_connect_triggered,
                   main_panicked, link_up, link_edges, hook_runs>>
    /\ UNCHANGED ruleVars

SetEnabled(table, id, on) ==
    {IF t.id = id THEN [t EXCEPT !.enabled = on] ELSE t : t \in table}

\* trigger:enable() / trigger:disable() from a script.
set_trigger_enabled(id, on) ==
    /\ MainAlive
    /\ \E t \in trigger_table \cup prompt_trigger_table : t.id = id /\ t.enabled # on
    /\ trigger_table' = SetEnabled(trigger_table, id, on)
    /\ prompt_trigger_table' = SetEnabled(prompt_trigger_table, id, on)
    /\ last_call' = [fn |-> "set_trigger_enabled", id |-> id]
    /\ UNCHANGED <<next_trigger_id, gmcp_listener_table, on_connect_cb, on_connect_triggered,
                   main_panicked, link_up, link_edges, hook_runs>>
    /\ UNCHANGED ruleVars

\* The orders in which table.pairs() may yield the entries of a table.
PairsOrders(table) ==
    {o \in [1..Cardinality(table) -> table] : \A i, j \in DOMAIN o : i # j => o[i] # o[j]}

\* A dispatch that stops at the first callback that raises.
TriggerStepAborts(t, text, acc) ==
    IF acc.traces = <<>> /\ t.enabled /\ IsMatch(t.pattern, text)
    THEN [matched |-> TRUE,
          gag |-> t.gag,
          called |-> Append(acc.called, t.id),
          traces |-> IF t.fails THEN Append(acc.traces, t.id) ELSE acc.traces]
    ELSE acc

\* One round of the loop of check_trigger_match: acc holds the line's flags, the
\* ids of the callbacks called and of those whose error was put on the bus.
TriggerStep(t, text, acc) ==
    IF t.enabled /\ IsMatch(t.pattern, text)
    THEN [matched |-> TRUE,
          gag |-> t.gag,
          called |-> Append(acc.called, t.id),
          traces |-> IF t.fails THEN Append(acc.traces, t.id) ELSE acc.traces]
    ELSE acc

RECURSIVE TriggerLoop(_, _, _)
TriggerLoop(order, text, acc) ==
    IF order = <<>> THEN acc
    ELSE TriggerLoop(Tail(order), text, TriggerStep(Head(order), text, acc))

\* Line::from(text): no flag set.
LineFrom(text) == [text |-> text, matched |-> FALSE, gag |-> FALSE, bypass_script |-> FALSE]

\* check_trigger_match(line, table)
check_trigger_match(fn, table, line) ==
    /\ MainAlive
    /\ \E order \in PairsOrders(table) :
         LET out == TriggerLoop(order, line.text,
                        [matched |-> line.matched, gag |-> line.gag,
                         called |-> <<>>, traces |-> <<>>])
         IN last_call' = [fn |-> fn, text |-> line.text, matched_in |-> line.matched,
                          gag_in |-> line.gag, rules |-> table,
                          matched |-> out.matched, gag |-> out.gag,
                          called |-> out.called, traces |-> out.traces]
    /\ UNCHANGED <<trigger_table, prompt_trigger_table, next_trigger_id, gmcp_listener_table,
                   on_connect_cb, on_connect_triggered, main_panicked,
                   link_up, link_edges, hook_runs>>
    /\ UNCHANGED ruleVars

check_for_trigger_match(line) ==
    check_trigger_match("check_for_trigger_match", trigger_table, line)

\* A prompt dispatch that walks the table of line triggers.
check_prompt_in_line_table(line) ==
    check_trigger_match("check_for_prompt_trigger_match", trigger_table, line)

check_for_prompt_trigger_match(line) ==
    check_trigger_match("check_for_prompt_trigger_match", prompt_trigger_table, line)

TrigNext ==
    /\ \/ \E p \in Patterns, g, pr, f \in BOOLEAN :
             next_trigger_id <= MaxTriggers /\ add_trigger(p, g, pr, f)
       \/ \E id \in 1..MaxTriggers : id < next_trigger_id /\ remove_trigger(id)
       \/ \E id \in 1..MaxTriggers, on \in BOOLEAN : set_trigger_enabled(id, on)
       \/ \E text \in LineTexts : check_for_trigger_match(LineFrom(text))
       \/ \E text \in LineTexts : check_for_prompt_trigger_match(LineFrom(text))
       \/ reset
    /\ UNCHANGED <<cmdVars, sessVars>>

\* Aliases added in one run.
MaxAliases == 2

\* blight:add_alias(pattern, fn): fails says whether fn raises.
add_alias(pattern, fails) ==
    /\ MainAlive
    /\ alias_table' = alias_table \cup
           {[id |-> next_alias_id, pattern |-> pattern, enabled |-> TRUE, fails |-> fails]}
    /\ next_alias_id' = next_alias_id + 1
    /\ last_call' = [fn |-> "add_alias", id |-> next_alias_id]
    /\ UNCHANGED <<trigger_table, prompt_trigger_table, next_trigger_id, gmcp_listener_table,
                   on_connect_cb, on_connect_triggered, main_panicked, link_up, link_edges,
                   hook_runs, timed_func_table, next_timer_id, on_gmcp_ready_cb>>

\* blight:remove_alias(id)
remove_alias(id) ==
    /\ MainAlive
    /\ alias_table' = {a \in alias_table : a.id # id}
    /\ last_call' = [fn |-> "remove_alias", id |-> id]
    /\ UNCHANGED <<trigger_table, prompt_trigger_table, next_trigger_id, gmcp_listener_table,
                   on_connect_cb, on_connect_triggered, main_panicked, link_up, link_edges,
                   hook_runs, next_alias_id, timed_func_table, next_timer_id, on_gmcp_ready_cb>>

\* alias:enable() / alias:disable() from a script.
set_alias_enabled(id, on) ==
    /\ MainAlive
    /\ \E a \in alias_table : a.id = id /\ a.enabled # on
    /\ alias_table' = SetEnabled(alias_table, id, on)
    /\ last_call' = [fn |-> "set_alias_enabled", id |-> id]
    /\ UNCHANGED <<trigger_table, prompt_trigger_table, next_trigger_id, gmcp_listener_table,
                   on_connect_cb, on_connect_triggered, main_panicked, link_up, link_edges,
                   hook_runs, next_alias_id, timed_func_table, next_timer_id, on_gmcp_ready_cb>>

\* An alias loop that stops after the first match.
AliasStepFirstOnly(a, text, acc) ==
    IF ~acc.response /\ a.enabled /\ IsMatch(a.pattern, text)
    THEN [response |-> TRUE,
          called |-> Append(acc.called, a.id),
          traces |-> IF a.fails THEN Append(acc.traces, a.id) ELSE acc.traces]
    ELSE acc

\* One round of the loop of check_for_alias_match: acc holds the response, the
\* ids of the callbacks called and of those whose error was put on the bus.
AliasStep(a, text, acc) ==
    IF a.enabled /\ IsMatch(a.pattern, text)
    THEN [response |-> TRUE,
          called |-> Append(acc.called, a.id),
          traces |-> IF a.fails THEN Append(acc.traces, a.id) ELSE acc.traces]
    ELSE acc

RECURSIVE AliasLoop(_, _, _)
AliasLoop(order, text, acc) ==
    IF order = <<>> THEN acc
    ELSE AliasLoop(Tail(order), text, AliasStep(Head(order), text, acc))

\* A dispatch that ignores the bypass flag.
AliasBypassIgnored(input) == FALSE

\* check_for_alias_match, line 73: if !input.flags.bypass_script
AliasBypass(input) == input.bypass_script

\* check_for_alias_match(input)
check_for_alias_match(input) ==
    /\ MainAlive
    /\ \E order \in PairsOrders(alias_table) :
         LET out == IF ~AliasBypass(input)
                    THEN AliasLoop(order, input.text,
                             [response |-> FALSE, called |-> <<>>, traces |-> <<>>])
                    ELSE [response |-> FALSE, called |-> <<>>, traces |-> <<>>]
         IN last_call' = [fn |-> "check_for_alias_match", text |-> input.text,
                          bypass_script |-> input.bypass_script, rules |-> alias_table,
                          ret |-> out.response, called |-> out.called,
                          traces |-> out.traces]
    /\ UNCHANGED <<trigger_table, prompt_trigger_table, next_trigger_id, gmcp_listener_table,
                   on_connect_cb, on_connect_triggered, main_panicked, link_up, link_edges,
                   hook_runs>>
    /\ UNCHANGED ruleVars

\* The rule tables together: aliases, triggers and prompt triggers, all on the
\* regex "test".
RulePatterns == { [anchored |-> FALSE, word |-> "test"] }

\* A line that holds the word of RulePatterns and one that does not.
RuleTexts == { <<"test">>, <<"look">> }

\* Rules registered since the last reset, and how many a run registers.
RuleAdds == (next_trigger_id - 1) + (next_alias_id - 1)
MaxRuleAdds == 3

RulesNext ==
    /\ \/ \E p \in RulePatterns, g, pr, f \in BOOLEAN :
             RuleAdds < MaxRuleAdds /\ next_trigger_id <= MaxTriggers /\ add_trigger(p, g, pr, f)
       \/ \E id \in 1..MaxTriggers : id < next_trigger_id /\ remove_trigger(id)
       \/ \E text \in RuleTexts : check_for_trigger_match(LineFrom(text))
       \/ \E text \in RuleTexts : check_for_prompt_trigger_match(LineFrom(text))
       \/ \E p \in RulePatterns, f \in BOOLEAN :
             RuleAdds < MaxRuleAdds /\ next_alias_id <= MaxAliases /\ add_alias(p, f)
       \/ \E id \in 1..MaxAliases : id < next_alias_id /\ remove_alias(id)
       \/ \E text \in RuleTexts, b \in BOOLEAN :
             check_for_alias_match([LineFrom(text) EXCEPT !.bypass_script = b])
       \/ reset
    /\ UNCHANGED <<cmdVars, sessVars>>

\* The alias table alone.
AliasNext ==
    /\ \/ \E p \in Patterns, f \in BOOLEAN : next_alias_id <= MaxAliases /\ add_alias(p, f)
       \/ \E id \in 1..MaxAliases : id < next_alias_id /\ remove_alias(id)
       \/ \E id \in 1..MaxAliases, on \in BOOLEAN : set_alias_enabled(id, on)
       \/ \E text \in LineTexts, b \in BOOLEAN :
             check_for_alias_match([LineFrom(text) EXCEPT !.bypass_script = b])
       \/ reset
    /\ UNCHANGED <<cmdVars, sessVars>>

\* A GMCP payload is a sequence of characters: letters of a message type or
\* body, and ' '.
GmcpChars == {"t", "b", " "}
GmcpTypes == { <<"t">>, <<"t", "t">> }

\* data.splitn(2, ' ').collect(): one piece when data holds no ' ', else the text
\* before the first ' ' and the text after it.
SplitN2(data) ==
    LET spaces == {i \in 1..Len(data) : data[i] = " "}
    IN IF spaces = {} THEN <<data>>
       ELSE <<Take(data, SetMin(spaces) - 1), Drop(data, SetMin(spaces))>>

\* blight:add_gmcp_receiver(type, fn): at most one listener per type.
add_gmcp_receiver(type, fails) ==
    /\ MainAlive
    /\ gmcp_listener_table' =
           {l \in gmcp_listener_table : l.type # type} \cup {[type |-> type, fails |-> fails]}
    /\ last_call' = [fn |-> "add_gmcp_receiver", type |-> type]
    /\ UNCHANGED <<trigger_table, prompt_trigger_table, next_trigger_id, on_connect_cb,
                   on_connect_triggered, main_panicked, link_up, link_edges, hook_runs>>
    /\ UNCHANGED ruleVars

\* receive_gmcp(data): split[1] is an index out of bounds when data holds no ' '.
receive_gmcp(data) ==
    /\ MainAlive
    /\ LET split == SplitN2(data)
           rec == [fn |-> "receive_gmcp", data |-> data, listeners |-> gmcp_listener_table]
       IN IF Len(split) < 2
          THEN /\ main_panicked' = TRUE
               /\ last_call' = rec @@ [called |-> FALSE, type |-> <<>>, body |-> <<>>,
                                       raised |-> FALSE, events |-> <<>>]
          ELSE /\ UNCHANGED main_panicked
               /\ last_call' = rec @@
                      [called |-> \E l \in gmcp_listener_table : l.type = split[1],
                       type |-> split[1], body |-> split[2],
                       raised |-> \E l \in gmcp_listener_table : l.type = split[1] /\ l.fails,
                       events |-> <<>>]
    /\ UNCHANGED <<trigger_table, prompt_trigger_table, next_trigger_id, gmcp_listener_table,
                   on_connect_cb, on_connect_triggered, link_up, link_edges, hook_runs>>
    /\ UNCHANGED ruleVars

RECURSIVE SeqsUpTo(_, _)
SeqsUpTo(S, n) ==
    IF n = 0 THEN {<<>>}
    ELSE LET shorter == SeqsUpTo(S, n - 1)
         IN shorter \cup {Append(s, c) : s \in shorter, c \in S}

GmcpNext ==
    /\ \/ \E type \in GmcpTypes, f \in BOOLEAN : add_gmcp_receiver(type, f)
       \/ \E data \in SeqsUpTo(GmcpChars, MaxGmcpLen) : receive_gmcp(data)
       \/ reset
    /\ UNCHANGED <<cmdVars, sessVars>>

\* blight:on_connect(fn): sets the global on-connection callback.
set_on_connect(fails) ==
    /\ MainAlive
    /\ on_connect_cb' = IF fails THEN "err" ELSE "ok"
    /\ last_call' = [fn |-> "set_on_connect"]
    /\ UNCHANGED <<trigger_table, prompt_trigger_table, next_trigger_id, gmcp_listener_table,
                   on_connect_triggered, main_panicked, link_up, link_edges, hook_runs>>
    /\ UNCHANGED ruleVars

\* on_connect(host, port): the callback runs unless the latch is set; an error
\* it raises is unwrapped.
on_connect ==
    /\ IF ~on_connect_triggered
       THEN /\ on_connect_triggered' = TRUE
            /\ hook_runs' = IF on_connect_cb # "none" THEN hook_runs + 1 ELSE hook_runs
            /\ main_panicked' = (on_connect_cb = "err")
       ELSE UNCHANGED <<on_connect_triggered, hook_runs, main_panicked>>
    /\ last_call' = [fn |-> "on_connect",
                     ran |-> ~on_connect_triggered /\ on_connect_cb # "none",
                     raised |-> ~on_connect_triggered /\ on_connect_cb = "err",
                     events |-> <<>>]

\* The main loop takes Connected off the bus while Idle: the session is
\* Connected and the script host is told.  link_edges counts the transitions
\* made with a callback set.
HandleConnected ==
    /\ MainAlive
    /\ ~link_up
    /\ link_up' = TRUE
    /\ link_edges' = IF on_connect_cb # "none" THEN link_edges + 1 ELSE link_edges
    /\ on_connect
    /\ UNCHANGED <<trigger_table, prompt_trigger_table, next_trigger_id, gmcp_listener_table,
                   on_connect_cb>>
    /\ UNCHANGED ruleVars

\* The main loop takes Disconnected off the bus: the session is Idle again.
HandleDisconnected ==
    /\ MainAlive
    /\ link_up
    /\ link_up' = FALSE
    /\ last_call' = [fn |-> "disconnected"]
    /\ UNCHANGED <<trigger_table, prompt_trigger_table, next_trigger_id, gmcp_listener_table,
                   on_connect_cb, on_connect_triggered, main_panicked, link_edges, hook_runs>>
    /\ UNCHANGED ruleVars

\* Timed functions added in one run.
MaxTimers == 2

\* blight:add_timer(secs, repeat, fn): fails says whether fn raises.
add_timer(fails) ==
    /\ MainAlive
    /\ timed_func_table' = timed_func_table \cup {[id |-> next_timer_id, fails |-> fails]}
    /\ next_timer_id' = next_timer_id + 1
    /\ last_call' = [fn |-> "add_timer", id |-> next_timer_id]
    /\ UNCHANGED <<trigger_table, prompt_trigger_table, next_trigger_id, gmcp_listener_table,
                   on_connect_cb, on_connect_triggered, main_panicked, link_up, link_edges,
                   hook_runs, alias_table, next_alias_id, on_gmcp_ready_cb>>

\* run_timed_function(id): table.get(id)? fails to convert nil to a function,
\* func.call(())? passes the callback's error on, and the result is unwrapped.
run_timed_function(id) ==
    /\ MainAlive
    /\ LET found == {f \in timed_func_table : f.id = id}
           ran == found # {}
           raised == \E f \in found : f.fails
       IN /\ main_panicked' = (~ran \/ raised)
          /\ last_call' = [fn |-> "run_timed_function", id |-> id, ran |-> ran,
                           raised |-> raised, events |-> <<>>]
    /\ UNCHANGED <<trigger_table, prompt_trigger_table, next_trigger_id, gmcp_listener_table,
                   on_connect_cb, on_connect_triggered, link_up, link_edges, hook_runs>>
    /\ UNCHANGED ruleVars

\* remove_timed_function(id): table.set(id, nil)
remove_timed_function(id) ==
    /\ MainAlive
    /\ timed_func_table' = {f \in timed_func_table : f.id # id}
    /\ last_call' = [fn |-> "remove_timed_function", id |-> id]
    /\ UNCHANGED <<trigger_table, prompt_trigger_table, next_trigger_id, gmcp_listener_table,
                   on_connect_cb, on_connect_triggered, main_panicked, link_up, link_edges,
                   hook_runs, alias_table, next_alias_id, next_timer_id, on_gmcp_ready_cb>>

\* blight:on_gmcp_ready(fn): sets the global on-gmcp-ready callback.
set_on_gmcp_ready(fails) ==
    /\ MainAlive
    /\ on_gmcp_ready_cb' = IF fails THEN "err" ELSE "ok"
    /\ last_call' = [fn |-> "set_on_gmcp_ready"]
    /\ UNCHANGED <<trigger_table, prompt_trigger_table, next_trigger_id, gmcp_listener_table,
                   on_connect_cb, on_connect_triggered, main_panicked, link_up, link_edges,
                   hook_runs, alias_table, next_alias_id, timed_func_table, next_timer_id>>

\* on_gmcp_ready(): the callback runs if set; an error it raises is unwrapped.
on_gmcp_ready ==
    /\ MainAlive
    /\ main_panicked' = (on_gmcp_ready_cb = "err")
    /\ last_call' = [fn |-> "on_gmcp_ready", ran |-> on_gmcp_ready_cb # "none",
                     raised |-> on_gmcp_ready_cb = "err", events |-> <<>>]
    /\ UNCHANGED <<trigger_table, prompt_trigger_table, next_trigger_id, gmcp_listener_table,
                   on_connect_cb, on_connect_triggered, link_up, link_edges, hook_runs>>
    /\ UNCHANGED ruleVars

\* GMCP messages with a body, one per message type.
HookPayloads == {type \o <<" ", "b">> : type \in GmcpTypes}

\* The user callbacks the host runs outside alias and trigger dispatch.
HooksNext ==
    /\ \/ \E f \in BOOLEAN : next_timer_id <= MaxTimers /\ add_timer(f)
       \/ \E id \in 1..MaxTimers : run_timed_function(id)
       \/ \E id \in 1..MaxTimers : remove_timed_function(id)
       \/ \E type \in GmcpTypes, f \in BOOLEAN : add_gmcp_receiver(type, f)
       \/ \E data \in HookPayloads : receive_gmcp(data)
       \/ \E f \in BOOLEAN : set_on_connect(f)
       \/ HandleConnected
       \/ \E f \in BOOLEAN : set_on_gmcp_ready(f)
       \/ on_gmcp_ready
       \/ reset
    /\ UNCHANGED <<cmdVars, sessVars>>

\* Rules of each family registered between two resets.
MaxResetRules == 1

\* Registration in every table, every dispatch, the connection hook and reset.
ResetNext ==
    /\ \/ \E p \in RulePatterns, pr \in BOOLEAN :
             next_trigger_id <= MaxResetRules /\ add_trigger(p, FALSE, pr, FALSE)
       \/ check_for_trigger_match(LineFrom(<<"test">>))
       \/ check_for_prompt_trigger_match(LineFrom(<<"test">>))
       \/ \E p \in RulePatterns : next_alias_id <= MaxResetRules /\ add_alias(p, FALSE)
       \/ check_for_alias_match(LineFrom(<<"test">>))
       \/ \E type \in GmcpTypes : add_gmcp_receiver(type, FALSE)
       \/ \E data \in HookPayloads : receive_gmcp(data)
       \/ next_timer_id <= MaxResetRules /\ add_timer(FALSE)
       \/ \E id \in 1..MaxResetRules : run_timed_function(id)
       \/ set_on_connect(FALSE)
       \/ link_edges < MaxEdges /\ HandleConnected
       \/ HandleDisconnected
       \/ reset
    /\ UNCHANGED <<cmdVars, sessVars>>

ConnNext ==
    /\ \/ \E f \in BOOLEAN : set_on_connect(f)
       \/ link_edges < MaxEdges /\ HandleConnected
       \/ HandleDisconnected
       \/ reset
    /\ UNCHANGED <<cmdVars, sessVars>>

-----------------------------------------------------------------------------
(* Session (session.rs): connect and disconnect, one step per access to    *)
(* the shared fields, run by the threads that hold a clone of the session. *)

\* TCP connections that succeed in one run.
MaxSockets == 2

Threads == {"main", "input"}
Endpoints == {"mud1:4000", "mud2:4000"}
NoSocket == 0

\* SessionBuilder::build
SessionNew ==
    /\ sess_endpoint = [t \in Threads |-> ""]
    /\ connected = FALSE
    /\ stream = NoSocket
    /\ stream_lock = "free"
    /\ stream_poisoned = FALSE
    /\ sockets = <<>>
    /\ bus = <<>>
    /\ prompt = <<>>
    /\ pc = [t \in Threads |-> "idle"]
    /\ local_stream = [t \in Threads |-> NoSocket]
    /\ call = [t \in Threads |-> [op |-> "none", done |-> TRUE]]

\* What a call remembers of the state it started in.
CallStart(op, e) ==
    [op |-> op, done |-> FALSE, endpoint |-> e, tcp_ok |-> FALSE, ret |-> FALSE,
     pre_connected |-> connected, pre_stream |-> stream, pre_bus |-> bus,
     pre_sockets |-> sockets, pre_prompt |-> prompt]

\* drop(TcpStream): the socket is closed.
DropSocket(socks, id) ==
    IF id = NoSocket THEN socks ELSE [socks EXCEPT ![id].state = "closed"]

\* connect, lines 30-32: the clone's host and port are set.
connect_call(t, e) ==
    /\ pc[t] = "idle"
    /\ sess_endpoint' = [sess_endpoint EXCEPT ![t] = e]
    /\ call' = [call EXCEPT ![t] = CallStart("connect", e)]
    /\ pc' = [pc EXCEPT ![t] = "c_tcp"]
    /\ UNCHANGED <<connected, stream, stream_lock, stream_poisoned, sockets, bus, prompt,
                   local_stream>>

\* connect, line 33: TcpStream::connect succeeds.
connect_tcp_ok(t) ==
    /\ pc[t] = "c_tcp"
    /\ sockets' = Append(sockets, [endpoint |-> sess_endpoint[t], state |-> "open"])
    /\ local_stream' = [local_stream EXCEPT ![t] = Len(sockets) + 1]
    /\ call' = [call EXCEPT ![t].tcp_ok = TRUE]
    /\ pc' = [pc EXCEPT ![t] = "c_replace"]
    /\ UNCHANGED <<sess_endpoint, connected, stream, stream_lock, stream_poisoned, bus, prompt>>

\* connect, line 33: TcpStream::connect fails.
connect_tcp_fail(t) ==
    /\ pc[t] = "c_tcp"
    /\ pc' = [pc EXCEPT ![t] = "c_ret"]
    /\ UNCHANGED <<sess_endpoint, connected, stream, stream_lock, stream_poisoned, sockets,
                   bus, prompt, local_stream, call>>

\* connect, line 34: stream.lock().unwrap().replace(stream); the lock is held
\* for the statement, the socket replaced is dropped.
connect_replace(t) ==
    /\ pc[t] = "c_replace"
    /\ stream_lock = "free"
    /\ IF stream_poisoned
       THEN /\ pc' = [pc EXCEPT ![t] = "panicked"]
            /\ sockets' = DropSocket(sockets, local_stream[t])
            /\ UNCHANGED stream
       ELSE /\ pc' = [pc EXCEPT ![t] = "c_store"]
            /\ stream' = local_stream[t]
            /\ sockets' = DropSocket(sockets, stream)
    /\ local_stream' = [local_stream EXCEPT ![t] = NoSocket]
    /\ UNCHANGED <<sess_endpoint, connected, stream_lock, stream_poisoned, bus, prompt, call>>

\* connect, line 35: connected.store(true)
connect_store(t) ==
    /\ pc[t] = "c_store"
    /\ connected' = TRUE
    /\ pc' = [pc EXCEPT ![t] = "c_send"]
    /\ UNCHANGED <<sess_endpoint, stream, stream_lock, stream_poisoned, sockets, bus, prompt,
                   local_stream, call>>

\* connect, line 36: send(Event::Connected)
connect_send(t) ==
    /\ pc[t] = "c_send"
    /\ bus' = Append(bus, "Connected")
    /\ pc' = [pc EXCEPT ![t] = "c_ret"]
    /\ UNCHANGED <<sess_endpoint, connected, stream, stream_lock, stream_poisoned, sockets,
                   prompt, local_stream, call>>

\* connect, line 38: returns connected.load()
connect_ret(t) ==
    /\ pc[t] = "c_ret"
    /\ call' = [call EXCEPT ![t].ret = connected, ![t].done = TRUE]
    /\ pc' = [pc EXCEPT ![t] = "idle"]
    /\ UNCHANGED <<sess_endpoint, connected, stream, stream_lock, stream_poisoned, sockets,
                   bus, prompt, local_stream>>

\* disconnect is called.
disconnect_call(t) ==
    /\ pc[t] = "idle"
    /\ call' = [call EXCEPT ![t] = CallStart("disconnect", sess_endpoint[t])]
    /\ pc' = [pc EXCEPT ![t] = "d_load"]
    /\ UNCHANGED <<sess_endpoint, connected, stream, stream_lock, stream_poisoned, sockets,
                   bus, prompt, local_stream>>

\* disconnect, line 43: if connected.load()
disconnect_load(t) ==
    /\ pc[t] = "d_load"
    /\ pc' = [pc EXCEPT ![t] = IF connected THEN "d_lock" ELSE "d_prompt"]
    /\ UNCHANGED <<sess_endpoint, connected, stream, stream_lock, stream_poisoned, sockets,
                   bus, prompt, local_stream, call>>

\* disconnect, line 44: if let Ok(mut stream) = self.stream.lock()
disconnect_lock(t) ==
    /\ pc[t] = "d_lock"
    /\ stream_lock = "free"
    /\ IF stream_poisoned
       THEN /\ pc' = [pc EXCEPT ![t] = "d_prompt"]
            /\ UNCHANGED stream_lock
       ELSE /\ pc' = [pc EXCEPT ![t] = "d_shutdown"]
            /\ stream_lock' = t
    /\ UNCHANGED <<sess_endpoint, connected, stream, stream_poisoned, sockets, bus, prompt,
                   local_stream, call>>

\* disconnect, lines 45-49: stream.as_mut().unwrap().shutdown(Both).ok(); the
\* unwrap of an empty slot panics with the lock held, which poisons it.
disconnect_shutdown(t) ==
    /\ pc[t] = "d_shutdown"
    /\ IF stream = NoSocket
       THEN /\ pc' = [pc EXCEPT ![t] = "panicked"]
            /\ stream_lock' = "free"
            /\ stream_poisoned' = TRUE
            /\ UNCHANGED sockets
       ELSE /\ pc' = [pc EXCEPT ![t] = "d_clear"]
            /\ sockets' = [sockets EXCEPT ![stream].state = "shutdown"]
            /\ UNCHANGED <<stream_lock, stream_poisoned>>
    /\ UNCHANGED <<sess_endpoint, connected, stream, bus, prompt, local_stream, call>>

\* A disconnect that leaves the socket in the slot.
disconnect_keeps(t) ==
    /\ pc[t] = "d_clear"
    /\ pc' = [pc EXCEPT ![t] = "d_store"]
    /\ UNCHANGED <<sess_endpoint, connected, stream, stream_lock, stream_poisoned, sockets,
                   bus, prompt, local_stream, call>>

\* disconnect, line 50: *stream = None
disconnect_clear(t) ==
    /\ pc[t] = "d_clear"
    /\ stream' = NoSocket
    /\ sockets' = DropSocket(sockets, stream)
    /\ pc' = [pc EXCEPT ![t] = "d_store"]
    /\ UNCHANGED <<sess_endpoint, connected, stream_lock, stream_poisoned, bus, prompt,
                   local_stream, call>>

\* disconnect, lines 51-52: connected.store(false); the lock is released.
disconnect_store(t) ==
    /\ pc[t] = "d_store"
    /\ connected' = FALSE
    /\ stream_lock' = "free"
    /\ pc' = [pc EXCEPT ![t] = "d_prompt"]
    /\ UNCHANGED <<sess_endpoint, stream, stream_poisoned, sockets, bus, prompt,
                   local_stream, call>>

\* disconnect, lines 54-56: the prompt is cleared; disconnect returns.
disconnect_prompt(t) ==
    /\ pc[t] = "d_prompt"
    /\ prompt' = <<>>
    /\ IF call[t].op = "close"
       THEN /\ pc' = [pc EXCEPT ![t] = "x_send"]
            /\ UNCHANGED call
       ELSE /\ pc' = [pc EXCEPT ![t] = "idle"]
            /\ call' = [call EXCEPT ![t].done = TRUE]
    /\ UNCHANGED <<sess_endpoint, connected, stream, stream_lock, stream_poisoned, sockets,
                   bus, local_stream>>

\* The reader thread stores the prompt the server sent (GA / EOR).
receive_prompt ==
    /\ connected
    /\ stream # NoSocket
    /\ sockets[stream].state = "open"
    /\ prompt = <<>>
    /\ prompt' = <<"hp>">>
    /\ UNCHANGED <<sess_endpoint, connected, stream, stream_lock, stream_poisoned, sockets,
                   bus, pc, local_stream, call>>

\* Quit events the session sends in one run.
MaxQuits == 1

QuitCount(events) == Cardinality({i \in DOMAIN events : events[i] = "Quit"})

\* close is called.
close_call(t) ==
    /\ pc[t] = "idle"
    /\ call' = [call EXCEPT ![t] = CallStart("close", sess_endpoint[t])]
    /\ pc' = [pc EXCEPT ![t] = "x_load"]
    /\ UNCHANGED <<sess_endpoint, connected, stream, stream_lock, stream_poisoned, sockets,
                   bus, prompt, local_stream>>

\* A close that goes straight to the Quit event.
close_skips(t) ==
    /\ pc[t] = "x_load"
    /\ pc' = [pc EXCEPT ![t] = "x_send"]
    /\ UNCHANGED <<sess_endpoint, connected, stream, stream_lock, stream_poisoned, sockets,
                   bus, prompt, local_stream, call>>

\* close, lines 63-65: if connected.load() { self.disconnect() }
close_load(t) ==
    /\ pc[t] = "x_load"
    /\ pc' = [pc EXCEPT ![t] = IF connected THEN "d_load" ELSE "x_send"]
    /\ UNCHANGED <<sess_endpoint, connected, stream, stream_lock, stream_poisoned, sockets,
                   bus, prompt, local_stream, call>>

\* close, line 66: send(Event::Quit); close returns.
close_send(t) ==
    /\ pc[t] = "x_send"
    /\ bus' = Append(bus, "Quit")
    /\ call' = [call EXCEPT ![t].done = TRUE]
    /\ pc' = [pc EXCEPT ![t] = "idle"]
    /\ UNCHANGED <<sess_endpoint, connected, stream, stream_lock, stream_poisoned, sockets,
                   prompt, local_stream>>

CloseStep(t) ==
    \/ QuitCount(bus) < MaxQuits /\ close_call(t)
    \/ close_load(t)
    \/ close_send(t)

SessStep(t) ==
    \/ \E e \in Endpoints : connect_call(t, e)
    \/ Len(sockets) < MaxSockets /\ connect_tcp_ok(t)
    \/ connect_tcp_fail(t)
    \/ connect_replace(t)
    \/ connect_store(t)
    \/ connect_send(t)
    \/ connect_ret(t)
    \/ disconnect_call(t)
    \/ disconnect_load(t)
    \/ disconnect_lock(t)
    \/ disconnect_shutdown(t)
    \/ disconnect_clear(t)
    \/ disconnect_store(t)
    \/ disconnect_prompt(t)

-----------------------------------------------------------------------------
(* The input thread (command.rs:410-470): the buffer it constructs, with   *)
(* the saved server names put into the completion tree and the saved       *)
(* history loaded, and the methods its key and script-UI-event handlers    *)
(* call.                                                                   *)

-----------------------------------------------------------------------------
(* parse_command (command.rs:472-589).  A message is a sequence of characters,
   each a one-character string. *)

\* The words parse_command matches on.
Cmd ==
    [connect |-> <<"/", "c", "o", "n", "n", "e", "c", "t">>,
     disconnect |-> <<"/", "d", "i", "s", "c", "o", "n", "n", "e", "c", "t">>,
     dc |-> <<"/", "d", "c">>,
     reconnect |-> <<"/", "r", "e", "c", "o", "n", "n", "e", "c", "t">>,
     rc |-> <<"/", "r", "c">>,
     add_server |-> <<"/", "a", "d", "d", "_", "s", "e", "r", "v", "e", "r">>,
     remove_server |-> <<"/", "r", "e", "m", "o", "v", "e", "_", "s", "e", "r", "v", "e", "r">>,
     list_servers |-> <<"/", "l", "i", "s", "t", "_", "s", "e", "r", "v", "e", "r", "s">>,
     ls |-> <<"/", "l", "s">>,
     load |-> <<"/", "l", "o", "a", "d">>,
     help |-> <<"/", "h", "e", "l", "p">>,
     start_log |-> <<"/", "s", "t", "a", "r", "t", "_", "l", "o", "g">>,
     stop_log |-> <<"/", "s", "t", "o", "p", "_", "l", "o", "g">>,
     settings |-> <<"/", "s", "e", "t", "t", "i", "n", "g", "s">>,
     set |-> <<"/", "s", "e", "t">>,
     quit |-> <<"/", "q", "u", "i", "t">>,
     q |-> <<"/", "q">>,
     tls |-> <<"t", "l", "s">>]

\* char::is_whitespace, for the characters used here.
IsWhitespace(c) == c \in {" ", "\t"}

UpperCase == <<"A", "B", "C", "D", "E", "F", "G", "H", "I", "J", "K", "L", "M",
               "N", "O", "P", "Q", "R", "S", "T", "U", "V", "W", "X", "Y", "Z">>
LowerCase == <<"a", "b", "c", "d", "e", "f", "g", "h", "i", "j", "k", "l", "m",
               "n", "o", "p", "q", "r", "s", "t", "u", "v", "w", "x", "y", "z">>

\* msg.to_ascii_lowercase()
ToAsciiLowercase(msg) ==
    [i \in 1..Len(msg) |->
        IF \E k \in 1..Len(UpperCase) : UpperCase[k] = msg[i]
        THEN LowerCase[CHOOSE k \in 1..Len(UpperCase) : UpperCase[k] = msg[i]]
        ELSE msg[i]]

\* lc_msg.split_whitespace(): the maximal runs of characters that are not
\* whitespace, in order; cur is the run being read.
RECURSIVE SplitFrom(_, _)
SplitFrom(msg, cur) ==
    IF msg = <<>> THEN (IF cur = <<>> THEN <<>> ELSE <<cur>>)
    ELSE IF IsWhitespace(Head(msg))
         THEN (IF cur = <<>> THEN <<>> ELSE <<cur>>) \o SplitFrom(Tail(msg), <<>>)
         ELSE SplitFrom(Tail(msg), Append(cur, Head(msg)))

SplitWhitespace(msg) == SplitFrom(msg, <<>>)

\* iter.next(): the k-th word, or None (no word is empty, so <<>> stands for None).
NextWord(words, k) == IF k <= Len(words) THEN words[k] ELSE <<>>

U16Max == 65535
Digits == <<"0", "1", "2", "3", "4", "5", "6", "7", "8", "9">>
ParseErr == -1

\* str::parse::<u16>: an optional '+', then one or more decimal digits whose
\* value fits 16 bits; anything else is an Err.
RECURSIVE ParseDigits(_, _)
ParseDigits(word, acc) ==
    IF word = <<>> THEN acc
    ELSE IF ~\E d \in 1..Len(Digits) : Digits[d] = Head(word) THEN ParseErr
    ELSE LET v == acc * 10 + (CHOOSE d \in 1..Len(Digits) : Digits[d] = Head(word)) - 1
         IN IF v > U16Max THEN ParseErr ELSE ParseDigits(Tail(word), v)

ParseU16(word) ==
    LET digits == IF word # <<>> /\ Head(word) = "+" THEN Tail(word) ELSE word
    IN IF digits = <<>> THEN ParseErr ELSE ParseDigits(digits, 0)

\* Connection::new(host, port, tls)
Connection(host, port, tls) == [host |-> host, port |-> port, tls |-> tls]

\* parse_command(msg).  A text that is a literal of the source is kept as the
\* part up to ':' and the rest.
parse_command(msg) ==
    LET None == <<>>
        Usage(rest) == <<"USAGE:", rest>>
        EventInfo(text) == [type |-> "Info", text |-> text]
        EventError(text) == [type |-> "Error", text |-> text]
        lc_msg == ToAsciiLowercase(msg)
        iter == SplitWhitespace(lc_msg)
        cmd == NextWord(iter, 1)
        p1 == NextWord(iter, 2)
        p2 == NextWord(iter, 3)
        p3 == NextWord(iter, 4)
        p4 == NextWord(iter, 5)
    IN CASE cmd = Cmd.connect ->
              IF p1 = None /\ p2 = None
              THEN EventInfo(Usage(" /connect <host> <port>"))
              ELSE IF p2 = None THEN [type |-> "LoadServer", name |-> p1]
              ELSE IF ParseU16(p2) # ParseErr
                   THEN [type |-> "Connect", connection |-> Connection(p1, ParseU16(p2), p3 = Cmd.tls)]
                   ELSE EventError(Usage(" /connect <host: String> <port: Positive number>"))
         [] cmd \in {Cmd.disconnect, Cmd.dc} -> [type |-> "Disconnect", id |-> 0]
         [] cmd \in {Cmd.reconnect, Cmd.rc} -> [type |-> "Reconnect"]
         [] cmd = Cmd.add_server ->
              IF p1 = None \/ p2 = None \/ p3 = None
              THEN EventInfo(Usage(" /add_server <name: String> <host: String> <port: Positive number>"))
              ELSE IF ParseU16(p3) # ParseErr
                   THEN [type |-> "AddServer", name |-> p1,
                         connection |-> Connection(p2, ParseU16(p3), p4 = Cmd.tls)]
                   ELSE EventError(Usage(" /add_server <name: String> <host: String> <port: Positive number>"))
         [] cmd = Cmd.remove_server ->
              IF p1 # None THEN [type |-> "RemoveServer", name |-> p1]
              ELSE EventInfo(Usage(" /remove_server <name: String>"))
         [] cmd \in {Cmd.list_servers, Cmd.ls} -> [type |-> "ListServers"]
         [] cmd = Cmd.load ->
              IF p1 = None THEN EventInfo(Usage(" /load <path>"))
              ELSE [type |-> "LoadScript", path |-> p1]
         [] cmd = Cmd.help ->
              IF p1 # None THEN [type |-> "ShowHelp", file |-> p1]
              ELSE [type |-> "ShowHelp", file |-> <<"h", "e", "l", "p">>]
         [] cmd = Cmd.start_log ->
              IF p1 # None THEN [type |-> "StartLogging", world |-> p1, force |-> TRUE]
              ELSE EventInfo(Usage(" /start_log <name>"))
         [] cmd = Cmd.stop_log -> [type |-> "StopLogging"]
         [] cmd = Cmd.settings -> [type |-> "ShowSettings"]
         [] cmd = Cmd.set ->
              IF p1 = None /\ p2 = None
              THEN EventInfo(Usage(" /set <setting> or /set <setting> <new_value>"))
              ELSE IF p2 # None /\ p1 # None
                   THEN [type |-> "ToggleSetting", setting |-> p1, value |-> p2]
                   ELSE [type |-> "ShowSetting", setting |-> p1]
         [] cmd \in {Cmd.quit, Cmd.q} -> [type |-> "Quit"]
         [] OTHER -> [type |-> "ServerInput", line |-> msg]

\* Nothing parsed yet.
NoParse == [msg |-> <<>>, event |-> [type |-> "none"]]

\* Key::Char('\n'): the submitted text goes to parse_command and the event is
\* sent to the main thread.
ParseStep(msg) ==
    /\ parsed' = [msg |-> msg, event |-> parse_command(msg)]
    /\ UNCHANGED <<strbuf, buffer, cached_buffer, draft, history, current_index, cursor_pos,
                   completion_tree, completion, input_panicked, last_op, nsubmit>>

\* Words after the command word in one message.
MaxArgs == 4

\* First words: the known commands, one in upper case, an unknown slash
\* command and a plain word.
FirstWords ==
    {Cmd.connect, Cmd.disconnect, Cmd.dc, Cmd.reconnect, Cmd.rc, Cmd.add_server, Cmd.remove_server, Cmd.list_servers, Cmd.ls, Cmd.load, Cmd.help, Cmd.start_log, Cmd.stop_log, Cmd.settings, Cmd.set, Cmd.quit, Cmd.q,
     <<"/", "S", "E", "T">>, <<"/", "x">>, <<"m">>}

\* Arguments: a name, ports inside and outside 16 bits, a signed port, TLS.
ArgWords == { <<"m">>, <<"4", "0">>, <<"6", "5", "5", "3", "6">>, <<"+", "7">>,
              <<"T", "L", "S">> }

\* The words of a message joined by sep.
RECURSIVE JoinWords(_, _)
JoinWords(words, sep) ==
    IF words = <<>> THEN <<>>
    ELSE IF Len(words) = 1 THEN Head(words)
    ELSE Head(words) \o sep \o JoinWords(Tail(words), sep)

Separators == { <<" ">>, <<" ", "\t">> }

\* parse_command reads nothing but its argument, so one message per behaviour
\* covers every call.
ParseNext ==
    /\ parsed = NoParse
    /\ \E first \in FirstWords, args \in SeqsUpTo(ArgWords, MaxArgs), sep \in Separators :
          ParseStep(JoinWords(<<first>> \o args, sep))
    /\ UNCHANGED <<keyVars, luaVars, sessVars>>

-----------------------------------------------------------------------------
(* The input thread's handling of one terminal event (command.rs:284-408,
   441-463): parse_key_event, then check_command_binds or
   check_escape_bindings, then handle_script_ui_io, then the buffer is sent. *)

BufferIdle ==
    UNCHANGED <<strbuf, buffer, cached_buffer, draft, history, current_index, cursor_pos,
                completion_tree, completion, input_panicked, last_op, nsubmit>>

\* script.lock() by thread t at position at: the thread waits for the mutex;
\* `if let Ok(..)` skips to err when the mutex is poisoned.
ScriptLock(t, at, ok, err) ==
    /\ lock_pc[t] = at
    /\ script_lock = "free"
    /\ IF script_poisoned
       THEN /\ lock_pc' = [lock_pc EXCEPT ![t] = err]
            /\ UNCHANGED script_lock
       ELSE /\ lock_pc' = [lock_pc EXCEPT ![t] = ok]
            /\ script_lock' = t
    /\ UNCHANGED script_poisoned

\* The guard is dropped at the end of the `if let` block.
ScriptUnlock(t, at, to) ==
    /\ lock_pc[t] = at
    /\ script_lock' = "free"
    /\ lock_pc' = [lock_pc EXCEPT ![t] = to]
    /\ UNCHANGED script_poisoned

\* parse_key_event(key), for the keys that edit or navigate; keys without an
\* arm of their own (Ctrl, Alt, F) and escape sequences leave the buffer alone.
parse_key_event(key) ==
    /\ Alive
    /\ lock_pc["input"] = "idle"
    /\ \/ key[1] = "Char" /\ push_key(key[2])
       \/ key = <<"Tab">> /\ tab_complete
       \/ key = <<"Left">> /\ move_left
       \/ key = <<"Right">> /\ move_right
       \/ key = <<"Backspace">> /\ remove
       \/ key = <<"Delete">> /\ delete_right
       \/ key = <<"Up">> /\ previous
       \/ key = <<"Down">> /\ next
       \/ key \in {<<"Ctrl">>, <<"Escape">>} /\ BufferIdle
    /\ lock_pc' = [lock_pc EXCEPT !["input"] = "binds_lock"]
    /\ UNCHANGED <<script_lock, script_poisoned, ui_batch>>

\* check_command_binds / check_escape_bindings: if let Ok(mut script) = script.lock()
binds_lock ==
    /\ Alive
    /\ ScriptLock("input", "binds_lock", "binds_check", "ui_lock")
    /\ BufferIdle
    /\ UNCHANGED ui_batch

\* A handler that calls handle_script_ui_io inside the `if let` block.
binds_keeps_guard ==
    /\ Alive
    /\ lock_pc["input"] = "binds_check"
    /\ lock_pc' = [lock_pc EXCEPT !["input"] = "ui_lock"]
    /\ BufferIdle
    /\ UNCHANGED <<script_lock, script_poisoned, ui_batch>>

\* script.check_bindings(..) has run and the block ends.
binds_release ==
    /\ Alive
    /\ ScriptUnlock("input", "binds_check", "ui_lock")
    /\ BufferIdle
    /\ UNCHANGED ui_batch

\* handle_script_ui_io: the lock, then get_ui_events() returns n events.
ui_lock(n) ==
    /\ Alive
    /\ ScriptLock("input", "ui_lock", "ui_events", "send_buffer")
    /\ ui_batch' = IF script_poisoned THEN 0 ELSE n
    /\ BufferIdle

\* The arm of one UiEvent (command.rs:382-402).
UiApply(event) ==
    \/ event = "StepLeft" /\ move_left
    \/ event = "StepRight" /\ move_right
    \/ event = "StepToStart" /\ move_to_start
    \/ event = "StepToEnd" /\ move_to_end
    \/ event = "StepWordLeft" /\ move_word_left
    \/ event = "StepWordRight" /\ move_word_right
    \/ event = "Remove" /\ remove
    \/ event = "DeleteToEnd" /\ delete_to_end
    \/ event = "DeleteFromStart" /\ delete_from_start
    \/ event = "DeleteWordLeft" /\ delete_word_left
    \/ event = "DeleteWordRight" /\ delete_word_right
    \/ event = "DeleteRight" /\ delete_right
    \/ event = "PreviousCommand" /\ previous
    \/ event = "NextCommand" /\ next
    \/ event = "Complete" /\ tab_complete
    \/ event \in {"Scroll", "Unknown"} /\ BufferIdle

UiEvents ==
    {"StepLeft", "StepRight", "StepToStart", "StepToEnd", "StepWordLeft", "StepWordRight",
     "Remove", "DeleteToEnd", "DeleteFromStart", "DeleteWordLeft", "DeleteWordRight",
     "DeleteRight", "PreviousCommand", "NextCommand", "Complete", "Scroll", "Unknown"}

\* The next event of the batch is applied; a panic in it unwinds through the
\* guard, which poisons the mutex and unlocks it.
ui_event(event) ==
    /\ Alive
    /\ lock_pc["input"] = "ui_events"
    /\ ui_batch > 0
    /\ UiApply(event)
    /\ ui_batch' = ui_batch - 1
    /\ IF input_panicked'
       THEN /\ script_lock' = "free"
            /\ script_poisoned' = TRUE
       ELSE UNCHANGED <<script_lock, script_poisoned>>
    /\ UNCHANGED lock_pc

\* The batch is done, get_output_lines() is sent, the block ends.
ui_release ==
    /\ Alive
    /\ ui_batch = 0
    /\ ScriptUnlock("input", "ui_events", "send_buffer")
    /\ BufferIdle
    /\ UNCHANGED ui_batch

\* writer.send(Event::UserInputBuffer(buffer.get_buffer(), buffer.get_pos()))
send_input_buffer ==
    /\ lock_pc["input"] = "send_buffer"
    /\ get_buffer
    /\ lock_pc' = [lock_pc EXCEPT !["input"] = "idle"]
    /\ UNCHANGED <<script_lock, script_poisoned, ui_batch>>

\* Characters typed, the longest buffer typed, events in one batch.
KeyChars == {CharA, CharOSlash}
KeysLen == 2
MaxBatch == 2

Keys ==
    {<<"Char", c>> : c \in KeyChars} \cup
    {<<"Tab">>, <<"Left">>, <<"Right">>, <<"Backspace">>, <<"Delete">>, <<"Up">>, <<"Down">>,
     <<"Ctrl">>, <<"Escape">>}

InputThreadStep ==
    \/ \E key \in Keys : (key[1] = "Char" => Len(buffer) < KeysLen) /\ parse_key_event(key)
    \/ binds_lock
    \/ binds_release
    \/ \E n \in 0..MaxBatch : ui_lock(n)
    \/ \E event \in UiEvents : ui_event(event)
    \/ ui_release
    \/ send_input_buffer

KeysNext == InputThreadStep /\ UNCHANGED <<parsed, luaVars, sessVars>>

\* Saved server names the completion tree is seeded with.
ServerNames == { <<CharA, CharOSlash, CharA>>, <<CharA, CharOSlash, CharOSlash>> }

\* for line in ... { completion_tree.insert(&line) }
SeedTree(tree, lines) ==
    tree \cup UNION {TreeInsert({}, lines[i]) : i \in 1..Len(lines)}

\* spawn_input_thread: the buffer before the first key, given the saved
\* servers and the history loaded from data/history.ron.
InputThreadStart(servers, loaded) ==
    /\ strbuf = <<>>
    /\ buffer = <<>>
    /\ cached_buffer = <<>>
    /\ draft = NoDraft
    /\ history = loaded
    /\ current_index = Len(loaded)
    /\ cursor_pos = 0
    /\ completion_tree = SeedTree(SeedTree({}, servers), loaded)
    /\ completion = EmptyCompletion
    /\ input_panicked = FALSE
    /\ last_op = Ran("new")
    /\ nsubmit = 0
    /\ parsed = NoParse
    /\ script_lock = "free"
    /\ script_poisoned = FALSE
    /\ lock_pc = [t \in LockThreads |-> "idle"]
    /\ ui_batch = 0

SavedServers == SortedSeq(ServerNames)

CmdInit ==
    InputThreadStart([i \in 1..Len(SavedServers) |-> CharsToString(SavedServers[i])], <<>>)

CmdNext ==
    \/ \E c \in Chars : Len(buffer) < MaxLen /\ push_key(c)
    \/ get_buffer
    \/ (buffer # <<>> => (nsubmit < MaxSubmits /\ Len(buffer) <= MaxSubmitLen)) /\ submit
    \/ tab_complete
    \/ move_left
    \/ move_right
    \/ move_to_start
    \/ move_to_end
    \/ move_word_left
    \/ move_word_right
    \/ remove
    \/ delete_right
    \/ delete_to_end
    \/ delete_from_start
    \/ delete_word_left
    \/ delete_word_right
    \/ previous
    \/ next

\* Typing, cursor movement, Enter and the history keys.
NavNext ==
    /\ \/ \E c \in Chars : Len(buffer) < MaxLen /\ push_key(c)
       \/ (buffer # <<>> => (nsubmit < MaxSubmits /\ Len(buffer) <= MaxSubmitLen)) /\ submit
       \/ move_left
       \/ move_right
       \/ remove
       \/ previous
       \/ next
    /\ UNCHANGED <<parsed, keyVars, luaVars, sessVars>>

Init == CmdInit /\ LuaNew /\ SessionNew

Next == CmdNext /\ UNCHANGED <<parsed, keyVars, luaVars, sessVars>>

Spec == Init /\ [][Next]_vars

SpecNav == Init /\ [][NavNext]_vars

\* Typing, Backspace and Tab; get_buffer is the refresh that ends a key event.
TabNext ==
    /\ \/ \E c \in Chars : Len(buffer) < MaxLen /\ push_key(c)
       \/ get_buffer
       \/ remove
       \/ tab_complete
    /\ UNCHANGED <<parsed, keyVars, luaVars, sessVars>>

SpecTab == Init /\ [][TabNext]_vars

\* The editing keys on one line: letters and spaces typed, Tab, cursor and
\* word movement, single deletes and range deletes.
EditChars == {CharA, CharSpace, CharOSlash}
EditLen == 2

EditNext ==
    /\ \/ \E c \in EditChars : Len(buffer) < EditLen /\ push_key(c)
       \/ get_buffer
       \/ tab_complete
       \/ move_left
       \/ move_right
       \/ move_to_start
       \/ move_to_end
       \/ move_word_left
       \/ move_word_right
       \/ remove
       \/ delete_right
       \/ delete_to_end
       \/ delete_from_start
       \/ delete_word_left
       \/ delete_word_right
    /\ UNCHANGED <<parsed, keyVars, luaVars, sessVars>>

SpecEdit == Init /\ [][EditNext]_vars

\* The input thread with a saved history of one command.
KeysInit ==
    /\ InputThreadStart([i \in 1..Len(SavedServers) |-> CharsToString(SavedServers[i])],
                        <<CharsToString(<<CharA, CharOSlash>>)>>)
    /\ LuaNew
    /\ SessionNew

SpecKeys == KeysInit /\ [][KeysNext]_vars

\* The script host alone: the input thread's buffer stays as constructed.
LuaInit == InputThreadStart(<<>>, <<>>) /\ LuaNew /\ SessionNew

SpecTrig == LuaInit /\ [][TrigNext]_vars

SpecGmcp == LuaInit /\ [][GmcpNext]_vars

SpecHooks == LuaInit /\ [][HooksNext]_vars

SpecRules == LuaInit /\ [][RulesNext]_vars

SpecParse == Init /\ [][ParseNext]_vars

SpecReset == LuaInit /\ [][ResetNext]_vars

SpecAlias == LuaInit /\ [][AliasNext]_vars

SpecConn == LuaInit /\ [][ConnNext]_vars

\* The session used by one thread: every call returns before the next.
SeqNext ==
    /\ SessStep("main") \/ CloseStep("main") \/ receive_prompt
    /\ UNCHANGED <<cmdVars, luaVars>>

SpecSeq == LuaInit /\ [][SeqNext]_vars

\* The session shared by the threads, their steps interleaved.
SessNext ==
    /\ (\E t \in Threads : SessStep(t)) \/ receive_prompt
    /\ UNCHANGED <<cmdVars, luaVars>>

SpecSess == LuaInit /\ [][SessNext]_vars

\* The main thread's dispatch of one event to the script host, as the
\* specification describes it: the mutex is taken, held for the dispatch and
\* released; session calls are made between dispatches, never inside one.
main_dispatch_call ==
    /\ pc["main"] = "idle"
    /\ lock_pc["main"] = "idle"
    /\ lock_pc' = [lock_pc EXCEPT !["main"] = "main_lock"]
    /\ BufferIdle
    /\ UNCHANGED <<script_lock, script_poisoned, ui_batch>>

main_dispatch_lock ==
    /\ \E err \in {"idle", "panicked"} : ScriptLock("main", "main_lock", "dispatch", err)
    /\ BufferIdle
    /\ UNCHANGED ui_batch

main_dispatch_release ==
    /\ ScriptUnlock("main", "dispatch", "idle")
    /\ BufferIdle
    /\ UNCHANGED ui_batch

\* Events in one batch of the script's UI events and sockets opened while
\* the locks are watched.
LockBatch == 1
LockSockets == 1

\* The keys that reach the bindings and the UI events the script emits: the
\* saved command is loaded, completed and edited, or nothing is done.
LockKeys == {<<"Tab">>, <<"Ctrl">>, <<"Escape">>}
LockEvents == {"PreviousCommand", "Complete", "DeleteToEnd", "Scroll"}

\* The input thread, the main thread's dispatch and the main thread's
\* session calls, interleaved.
LockNext ==
    \/ /\ \/ \E key \in LockKeys : parse_key_event(key)
          \/ binds_lock
          \/ binds_release
          \/ \E n \in 0..LockBatch : ui_lock(n)
          \/ \E event \in LockEvents : ui_event(event)
          \/ ui_release
          \/ send_input_buffer
          \/ main_dispatch_call
          \/ main_dispatch_lock
          \/ main_dispatch_release
       /\ UNCHANGED <<parsed, luaVars, sessVars>>
    \/ /\ lock_pc["main"] = "idle"
       /\ SessStep("main")
       /\ Len(sockets') <= LockSockets
       /\ UNCHANGED <<cmdVars, luaVars>>

SpecLock == KeysInit /\ [][LockNext]_vars

-----------------------------------------------------------------------------
(* The history at its cap: the input thread started with a saved history   *)
(* of MAX_HISTORY entries or a few less, one-letter commands.              *)

\* Longest command typed, number of non-empty submits, how far below the cap
\* the loaded history may be, and how far up the history previous() goes.
CapLen == 2
CapSubmits == 2
NearCap == 1
NavDepth == 2

CapChars == {CharA}

\* A saved history: n commands, alternately c1 and c2.
Alternating(n, c1, c2) == [i \in 1..n |-> IF i % 2 = 1 THEN c1 ELSE c2]

CmdA == CharsToString(<<CharA>>)
CmdAA == CharsToString(<<CharA, CharA>>)

LoadedHistories ==
    {<<>>} \cup
    { Alternating(n, c[1], c[2]) :
        n \in (MAX_HISTORY - NearCap)..MAX_HISTORY,
        c \in {<<CmdA, CmdAA>>, <<CmdAA, CmdA>>} }

CapInit ==
    /\ \E loaded \in LoadedHistories : InputThreadStart(<<>>, loaded)
    /\ LuaNew
    /\ SessionNew

CapNext ==
    /\ \/ \E c \in CapChars : Len(buffer) < CapLen /\ push_key(c)
       \/ (buffer # <<>> => nsubmit < CapSubmits) /\ submit
       \/ remove
       \/ current_index + NavDepth > Len(history) /\ previous
       \/ next
    /\ UNCHANGED <<parsed, keyVars, luaVars, sessVars>>

SpecCap == CapInit /\ [][CapNext]_vars

-----------------------------------------------------------------------------
(* Claims *)

\* C1: in every state reachable by CommandBuffer operations the cursor is
\* within the buffer, counted in characters: 0 <= cursor_pos <= |buffer|.
C1_CursorInBounds == 0 <= cursor_pos /\ cursor_pos <= Len(buffer)

NoAdjacentEqual(h) == \A i \in 1..(Len(h) - 1) : h[i] # h[i + 1]

C2_HistoryStep ==
    history' # history =>
        /\ last_op'.op = "submit"
        /\ history = <<>> \/ history[Len(history)] # last_op'.ret
        /\ history' = IF Len(history) < MAX_HISTORY
                       THEN Append(history, last_op'.ret)
                       ELSE Append(Tail(history), last_op'.ret)

\* C2: no two adjacent history entries are equal and the history holds at
\* most MAX_HISTORY entries; the history changes only by a submit, which
\* appends its command when it differs from the last entry and drops the
\* oldest entry when the cap is exceeded.
C2_HistoryDedupCap ==
    /\ [](NoAdjacentEqual(history) /\ Len(history) <= MAX_HISTORY)
    /\ [][C2_HistoryStep]_vars

\* A submit at the cap: a new command was appended and the oldest dropped.
C2_Witness ==
    /\ Len(history) = MAX_HISTORY
    /\ nsubmit >= 2
    /\ last_op.op = "submit"
    /\ last_op.ret # <<>>
    /\ last_op.dropped = 1
    /\ history[Len(history)] = last_op.ret

\* The enabled triggers of the dispatched table whose pattern matches the line.
C3_Hits == {t \in last_call.rules : t.enabled /\ IsMatch(t.pattern, last_call.text)}

\* C3: trigger dispatch calls the callback of every enabled matching trigger
\* of the table, once; afterwards matched is true iff it was true before or a
\* trigger matched, and gag is true iff it was true before or a matching
\* trigger gags, whatever the order of the triggers.
C3_TriggerDispatch ==
    last_call.fn \in {"check_for_trigger_match", "check_for_prompt_trigger_match"} =>
        /\ {last_call.called[i] : i \in 1..Len(last_call.called)} = {t.id : t \in C3_Hits}
        /\ Len(last_call.called) = Cardinality(C3_Hits)
        /\ last_call.matched = (last_call.matched_in \/ C3_Hits # {})
        /\ last_call.gag = (last_call.gag_in \/ \E t \in C3_Hits : t.gag)

\* C4: receive_gmcp splits the payload on its first space only: "T B" calls
\* the listener registered for T with body B, and "T" without a space calls it
\* with the empty body; the call returns normally.
C4_GmcpSplit ==
    last_call.fn = "receive_gmcp" =>
        \A l \in last_call.listeners :
            LET T == l.type
                d == last_call.data
            IN /\ (Len(d) > Len(T) /\ Take(d, Len(T)) = T /\ d[Len(T) + 1] = " ") =>
                      /\ ~main_panicked
                      /\ last_call.called
                      /\ last_call.type = T
                      /\ last_call.body = Drop(d, Len(T) + 1)
               /\ (d = T) =>
                      /\ ~main_panicked
                      /\ last_call.called
                      /\ last_call.type = T
                      /\ last_call.body = <<>>

\* C5: the on-connection callback runs exactly once for each transition from
\* Idle to Connected (made with a callback set), also for a reconnect that
\* follows a disconnect without a reset.
C5_OnConnectPerEdge == hook_runs = link_edges

\* The events a call has put on the bus since it began.
NewEvents(c) == SubSeq(bus, Len(c.pre_bus) + 1, Len(bus))

\* A connect to the endpoint the session was connected to when the call began.
SameEndpoint(c) ==
    /\ c.pre_connected
    /\ c.pre_stream # NoSocket
    /\ c.pre_sockets[c.pre_stream].endpoint = c.endpoint

\* C6: connect(h, p) while already connected to (h, p) is a no-op: it puts no
\* further Connected event on the bus and the first socket stays, open, in the
\* slot.
C6_ConnectIdempotent ==
    \A t \in Threads :
        (call[t].op = "connect" /\ call[t].done /\ SameEndpoint(call[t]))
            => /\ NewEvents(call[t]) = <<>>
               /\ stream = call[t].pre_stream
               /\ sockets[stream].state = "open"

\* C7: when the TCP connect inside connect fails, an Error event is emitted, no
\* Connected event is, and the session is Idle: connected is false and the
\* slot is empty, whatever the state before the call.
C7_ConnectFailure ==
    \A t \in Threads :
        (call[t].op = "connect" /\ call[t].done /\ ~call[t].tcp_ok)
            => /\ \E i \in DOMAIN NewEvents(call[t]) : NewEvents(call[t])[i] = "Error"
               /\ \A i \in DOMAIN NewEvents(call[t]) : NewEvents(call[t])[i] # "Connected"
               /\ ~connected
               /\ stream = NoSocket

\* C8: disconnect called while connected emits exactly one Disconnected event;
\* called while not connected it emits none.
C8_DisconnectEvent ==
    \A t \in Threads :
        (call[t].op = "disconnect" /\ call[t].done)
            => NewEvents(call[t]) = IF call[t].pre_connected THEN <<"Disconnected">> ELSE <<>>

\* C9: after disconnect returns, from any prior state, connected is false, the
\* slot is empty and the prompt is empty; called while not connected it touches
\* no socket, leaves connected and the slot as they were, and does not fail.
C9_DisconnectResult ==
    \A t \in Threads :
        call[t].op = "disconnect"
            => /\ call[t].done => (~connected /\ stream = NoSocket /\ prompt = <<>>)
               /\ ~call[t].pre_connected
                    => /\ pc[t] # "panicked"
                       /\ sockets = call[t].pre_sockets
                       /\ connected = call[t].pre_connected
                       /\ stream = call[t].pre_stream

C9_Witness ==
    /\ call["main"].op = "disconnect"
    /\ call["main"].done
    /\ call["main"].pre_connected
    /\ call["main"].pre_prompt # <<>>
    /\ sockets[call["main"].pre_stream].state = "closed"
    /\ Len(sockets) = 2

\* C10: in every state a thread sharing the session can observe (the slot is
\* read under its lock), the states between the steps of connect and of
\* disconnect included, connected is true exactly when the slot holds a socket.
C10_ConnectedIffSlot ==
    stream_lock = "free" => (connected <=> stream # NoSocket)

\* No socket the session opened is still open.
AllSocketsDown == \A i \in DOMAIN sockets : sockets[i].state # "open"

\* C11: close, called in any session state, emits exactly one Quit event; when
\* it returns connected is false and the slot is empty; the socket is shut
\* down, the slot cleared and the flag cleared before Quit is put on the bus.
C11_CloseQuit ==
    /\ [](\A t \in Threads :
            (call[t].op = "close" /\ call[t].done)
                => /\ NewEvents(call[t]) = <<"Quit">>
                   /\ ~connected
                   /\ stream = NoSocket
                   /\ AllSocketsDown)
    /\ [][QuitCount(bus') > QuitCount(bus)
            => (~connected /\ stream = NoSocket /\ AllSocketsDown)]_vars

C11_Witness ==
    /\ call["main"].op = "close"
    /\ call["main"].done
    /\ call["main"].pre_connected
    /\ call["main"].pre_prompt # <<>>
    /\ sockets[call["main"].pre_stream].state = "closed"
    /\ bus = <<"Connected", "Quit">>

\* The rules of the last dispatch that are enabled and match its line.
Hits == {r \in last_call.rules : r.enabled /\ IsMatch(r.pattern, last_call.text)}

Ids(rules) == {r.id : r \in rules}

Rule(id) == CHOOSE r \in last_call.rules : r.id = id

\* The callbacks called, in order, that raised.
Raised(called) == SelectSeq(called, LAMBDA id : Rule(id).fails)

\* C12: when the callback of a matching alias or trigger raises, the error is
\* put on the bus, every other enabled matching rule of the dispatch still has
\* its callback invoked (each once), the dispatch returns, and its result is
\* that of a dispatch whose callbacks succeed: alias dispatch returns true, the
\* line is flagged matched with the gag of the trigger.
C12_CallbackErrorContained ==
    /\ last_call.fn \in {"check_for_trigger_match", "check_for_prompt_trigger_match"}
         => /\ ~main_panicked
            /\ {last_call.called[i] : i \in DOMAIN last_call.called} = Ids(Hits)
            /\ Len(last_call.called) = Cardinality(Hits)
            /\ last_call.traces = Raised(last_call.called)
            /\ Hits # {} => /\ last_call.matched
                            /\ last_call.gag = Rule(last_call.called[Len(last_call.called)]).gag
    /\ (last_call.fn = "check_for_alias_match" /\ ~last_call.bypass_script)
         => /\ ~main_panicked
            /\ {last_call.called[i] : i \in DOMAIN last_call.called} = Ids(Hits)
            /\ Len(last_call.called) = Cardinality(Hits)
            /\ last_call.traces = Raised(last_call.called)
            /\ Hits # {} => last_call.ret

C12_Witness ==
    /\ last_call.fn = "check_for_trigger_match"
    /\ Len(last_call.called) = 2
    /\ last_call.traces = <<last_call.called[1]>>
    /\ last_call.matched
    /\ last_call.gag

\* C13: an error raised by a timed function, a GMCP listener, the on_connect
\* hook or the on_gmcp_ready hook is put on the bus as an Error event and the
\* host call returns: the thread is not aborted.
C13_HookErrorSurfaced ==
    (/\ last_call.fn \in {"run_timed_function", "receive_gmcp", "on_connect", "on_gmcp_ready"}
     /\ last_call.raised)
        => /\ ~main_panicked
           /\ \E i \in DOMAIN last_call.events : last_call.events[i] = "Error"

\* C14: from the history bottom with any buffer B and any cursor, previous
\* followed by next leaves the buffer B, the cursor at |B| and the index at the
\* bottom, with an empty and with a non-empty history.
C14_NavRoundTrip ==
    (last_op.op = "next" /\ last_op.after.op = "previous" /\ last_op.after.bottom)
        => /\ buffer = last_op.after.draft
           /\ cursor_pos = Len(buffer)
           /\ current_index = Len(history)

C14_Witness ==
    /\ last_op.op = "next"
    /\ last_op.after.op = "previous"
    /\ last_op.after.bottom
    /\ history # <<>>
    /\ buffer = <<CharA, CharOSlash>>
    /\ buffer # StringChars(history[Len(history)])

\* C15: for a line whose bypass_script flag is set, whatever the alias table
\* holds, check_for_alias_match returns false and invokes no alias callback.
C15_AliasBypass ==
    (last_call.fn = "check_for_alias_match" /\ last_call.bypass_script)
        => /\ ~last_call.ret
           /\ last_call.called = <<>>

C15_Witness ==
    /\ last_call.fn = "check_for_alias_match"
    /\ last_call.bypass_script
    /\ Cardinality(Hits) = 2
    /\ ~last_call.ret

\* C16: for a line without bypass_script, check_for_alias_match invokes once
\* each the callback of every enabled alias whose pattern matches the line,
\* invokes no callback of a disabled or non-matching alias, and returns true
\* iff at least one enabled alias matched.
C16_AliasDispatch ==
    (last_call.fn = "check_for_alias_match" /\ ~last_call.bypass_script)
        => /\ {last_call.called[i] : i \in DOMAIN last_call.called} = Ids(Hits)
           /\ Len(last_call.called) = Cardinality(Hits)
           /\ last_call.ret = (Hits # {})

C16_Witness ==
    /\ last_call.fn = "check_for_alias_match"
    /\ ~last_call.bypass_script
    /\ Cardinality(last_call.rules) = 2
    /\ \E a \in last_call.rules : a.pattern.anchored /\ ~a.enabled
    /\ Len(last_call.called) = 1
    /\ last_call.text = <<"test">>
    /\ last_call.ret

\* The enabled rules of either trigger table, registered with prompt = kind,
\* that match the line of the last dispatch.
HitsOfKind(kind) ==
    {r \in trigger_table \cup prompt_trigger_table :
        r.prompt = kind /\ r.enabled /\ IsMatch(r.pattern, last_call.text)}

\* The last dispatch called exactly the matching rules of one kind and took
\* its flags from them alone.
OnlyKind(kind) ==
    /\ {last_call.called[i] : i \in DOMAIN last_call.called} = Ids(HitsOfKind(kind))
    /\ last_call.matched = (HitsOfKind(kind) # {})
    /\ last_call.gag => \E r \in HitsOfKind(kind) : r.gag

\* C17: a trigger registered with prompt=true is matched only by
\* check_for_prompt_trigger_match, one registered without it only by
\* check_for_trigger_match; a dispatch through one entry point calls no
\* callback of, and takes no flag from, a rule of the other kind.
C17_TriggerIsolation ==
    /\ last_call.fn = "check_for_trigger_match" => OnlyKind(FALSE)
    /\ last_call.fn = "check_for_prompt_trigger_match" => OnlyKind(TRUE)

C17_Witness ==
    /\ last_call.fn = "check_for_prompt_trigger_match"
    /\ HitsOfKind(FALSE) # {}
    /\ \A r \in HitsOfKind(FALSE) : r.gag
    /\ HitsOfKind(TRUE) # {}
    /\ last_call.matched
    /\ ~last_call.gag

TriggerRules == trigger_table \cup prompt_trigger_table

UniqueIds(rules, next_id) ==
    /\ \A r1, r2 \in rules : r1.id = r2.id => r1 = r2
    /\ \A r \in rules : r.id < next_id

Without(rules, id) == {r \in rules : r.id # id}

\* A dispatch calls the matching rules now in its table, and no other.
CallsOnlyRegistered ==
    /\ last_call.fn = "check_for_trigger_match"
         => {last_call.called[i] : i \in DOMAIN last_call.called} = Ids(HitsOfKind(FALSE))
    /\ last_call.fn = "check_for_prompt_trigger_match"
         => {last_call.called[i] : i \in DOMAIN last_call.called} = Ids(HitsOfKind(TRUE))
    /\ (last_call.fn = "check_for_alias_match" /\ ~last_call.bypass_script)
         => /\ last_call.rules = alias_table
            /\ {last_call.called[i] : i \in DOMAIN last_call.called} = Ids(Hits)

\* A removal takes the rule of that id, and only it, out of the tables; an id
\* that is gone does not come back while the Lua state lives.
RemovalStep ==
    /\ last_call'.fn = "remove_trigger"
         => /\ trigger_table' = Without(trigger_table, last_call'.id)
            /\ prompt_trigger_table' = Without(prompt_trigger_table, last_call'.id)
            /\ alias_table' = alias_table
    /\ last_call'.fn = "remove_alias"
         => /\ alias_table' = Without(alias_table, last_call'.id)
            /\ trigger_table' = trigger_table
            /\ prompt_trigger_table' = prompt_trigger_table
    /\ last_call'.fn # "reset"
         => /\ \A r \in TriggerRules' : r \in TriggerRules \/ r.id >= next_trigger_id
            /\ \A a \in alias_table' : a \in alias_table \/ a.id >= next_alias_id
            /\ next_trigger_id' >= next_trigger_id
            /\ next_alias_id' >= next_alias_id

\* C18: removal by id removes exactly one rule: after remove_trigger(id) or
\* remove_alias(id) no later dispatch calls the callback of the rule that id
\* was returned for, and every other rule keeps matching, a trigger of the
\* other kind on the same pattern included.
C18_RemoveById ==
    /\ [](/\ UniqueIds(TriggerRules, next_trigger_id)
          /\ UniqueIds(alias_table, next_alias_id)
          /\ CallsOnlyRegistered)
    /\ [][RemovalStep]_vars

C18_Witness ==
    /\ last_call.fn = "check_for_prompt_trigger_match"
    /\ next_trigger_id = 3
    /\ trigger_table = {}
    /\ Ids(prompt_trigger_table) = {2}
    /\ last_call.text = <<"test">>
    /\ last_call.called = <<2>>

AllTablesEmpty ==
    /\ alias_table = {}
    /\ trigger_table = {}
    /\ prompt_trigger_table = {}
    /\ gmcp_listener_table = {}
    /\ timed_func_table = {}

\* What a dispatch runs is in its table when it runs.
RunsOnlyRegistered ==
    /\ CallsOnlyRegistered
    /\ (last_call.fn = "receive_gmcp" /\ last_call.called)
         => \E l \in gmcp_listener_table : l.type = last_call.type
    /\ (last_call.fn = "run_timed_function" /\ last_call.ran)
         => \E f \in timed_func_table : f.id = last_call.id

\* With every table empty a dispatch runs no callback.
NothingRunsWhenEmpty ==
    AllTablesEmpty =>
        /\ last_call.fn \in {"check_for_trigger_match", "check_for_prompt_trigger_match"}
             => (last_call.called = <<>> /\ ~last_call.matched)
        /\ last_call.fn = "check_for_alias_match" => (last_call.called = <<>> /\ ~last_call.ret)
        /\ last_call.fn = "receive_gmcp" => ~last_call.called
        /\ last_call.fn = "run_timed_function" => ~last_call.ran

\* reset leaves every table empty and the latch clear; the tables fill again
\* only by registration, the latch is set only by on_connect, and an
\* on_connect call that finds the latch clear and a hook set runs the hook.
ResetStep ==
    /\ last_call'.fn = "reset" => (AllTablesEmpty' /\ ~on_connect_triggered')
    /\ (~on_connect_triggered /\ on_connect_triggered') => last_call'.fn = "on_connect"
    /\ (last_call'.fn = "on_connect" /\ ~on_connect_triggered /\ on_connect_cb # "none")
         => (last_call'.ran /\ hook_runs' = hook_runs + 1)
    /\ (AllTablesEmpty /\ ~AllTablesEmpty')
         => last_call'.fn \in {"add_trigger", "add_alias", "add_gmcp_receiver", "add_timer"}

\* C19: after reset all rule tables (aliases, triggers, prompt triggers, GMCP
\* listeners, timed functions) are empty, so nothing registered before the
\* reset matches or runs, and the on_connect latch is clear, so the next
\* on_connect call invokes the hook.
C19_ResetClears ==
    /\ [](RunsOnlyRegistered /\ NothingRunsWhenEmpty)
    /\ [][ResetStep]_vars

C19_Witness ==
    /\ last_call.fn = "on_connect"
    /\ last_call.ran
    /\ hook_runs = 2
    /\ AllTablesEmpty
    /\ next_trigger_id = 1 /\ next_alias_id = 1 /\ next_timer_id = 1

ParsedWords == SplitWhitespace(ToAsciiLowercase(parsed.msg))

\* The argument shapes that are invalid for a known command: a required
\* argument is missing, or the port is not a valid port number.
InvalidShape(words) ==
    LET cmd == NextWord(words, 1)
        nargs == Len(words) - 1
    IN \/ cmd = Cmd.connect /\ (nargs = 0 \/ (nargs >= 2 /\ ParseU16(words[3]) = ParseErr))
       \/ cmd = Cmd.add_server /\ (nargs < 3 \/ ParseU16(words[4]) = ParseErr)
       \/ cmd \in {Cmd.remove_server, Cmd.load, Cmd.start_log, Cmd.set} /\ nargs = 0

\* C20: parse_command maps every invalid argument shape of a known slash
\* command (a missing required argument of /connect, /add_server,
\* /remove_server, /load, /start_log or /set, or a port of /connect or
\* /add_server that is not a valid port number) to an Info event whose text
\* starts with USAGE:.
C20_UsageInfo ==
    InvalidShape(ParsedWords)
        => (parsed.event.type = "Info" /\ Head(parsed.event.text) = "USAGE:")

C21_SubmitStep ==
    last_op'.op = "submit"
        => /\ last_op'.ret = CharsToString(buffer)
           /\ buffer = <<>> => (last_op'.ret = <<>> /\ history' = history)
           /\ buffer' = <<>>
           /\ cursor_pos' = 0
           /\ current_index' = Len(history')

\* C21: submit on a non-empty buffer returns the buffer's text; on an empty
\* buffer it returns the empty string and leaves the history unchanged; in both
\* cases the buffer is empty afterwards, the cursor is 0 and current_index is
\* |history|.
C21_Submit == [][C21_SubmitStep]_vars

C21_Witness ==
    /\ last_op.op = "submit"
    /\ last_op.ret = CharsToString(<<CharOSlash>>)
    /\ history = <<last_op.ret>>
    /\ buffer = <<>> /\ cursor_pos = 0 /\ current_index = 1

\* The completion step and the buffer a tab_complete leaves that queries the
\* tree with text and keeps text as the base.
TabQueries(text) ==
    LET c1 == TabOptions(completion, completion_tree, text)
    IN /\ completion' = CompletionNextState(c1)
       /\ buffer' = IF CompletionIsEmpty(c1) THEN buffer
                     ELSE StringChars(CompletionNextValue(c1))

C23_TabStep ==
    (tab_complete /\ Len(buffer) > 1 /\ CompletionIsEmpty(completion))
        => TabQueries(CharsToString(buffer))

\* C23: when the completion step is empty, tab_complete queries the completion
\* tree with the buffer's text at the moment of the call, the text after every
\* preceding edit (those applied earlier in the same batch of script UI events
\* included), and stores that same text as the base to return to.
C23_TabQueriesBuffer == [][C23_TabStep]_vars

\* C22: lock discipline.  A thread about to call script.lock() does not hold
\* the script-host mutex already and does not hold the socket mutex, and no
\* two threads wait for a mutex the other one holds: the input thread's key
\* handling, the main thread's dispatch and the session's connect and
\* disconnect never block one another for good.
AtScriptLock(t) ==
    \/ t = "input" /\ Alive /\ lock_pc[t] \in {"binds_lock", "ui_lock"}
    \/ t = "main" /\ lock_pc[t] = "main_lock"

AtStreamLock(t) == pc[t] \in {"c_replace", "d_lock"}

\* The thread that holds the mutex t is waiting for, or "free".
WaitsFor(t) ==
    IF AtScriptLock(t) THEN script_lock
    ELSE IF AtStreamLock(t) THEN stream_lock
    ELSE "free"

C22_LockDiscipline ==
    /\ \A t \in LockThreads : AtScriptLock(t) => (script_lock # t /\ stream_lock # t)
    /\ \A t \in LockThreads : WaitsFor(t) # t
    /\ \A t, u \in LockThreads : ~(WaitsFor(t) = u /\ WaitsFor(u) = t)

\* The input thread waits in handle_script_ui_io while the main thread is in
\* a dispatch, and the main thread can go on.
C22_Witness ==
    /\ lock_pc["input"] = "ui_lock"
    /\ script_lock = "main"
    /\ lock_pc["main"] = "dispatch"
    /\ connected


\* C24: completion cycling.  With N >= 1 stashed options, a tab_complete sets
\* the buffer to the option at the step's index, or to the base string once
\* the options are used up, and moves the index on, back to the first option
\* after the base; a push_key clears the stashed options.  As stated, for
\* every tab_complete that is not preceded by a push_key:
CycleStep ==
    LET N == Len(completion.options)
        i == completion.index
    IN /\ buffer' = StringChars(IF i < N THEN completion.options[i + 1] ELSE completion.base)
       /\ completion' = [completion EXCEPT !.index = (i + 1) % (N + 1)]

PushClears == last_op'.op = "push_key" => CompletionIsEmpty(completion')

C24_CyclingAsStated ==
    [][/\ (tab_complete /\ ~CompletionIsEmpty(completion)) => CycleStep
       /\ PushClears]_vars

\* C24, amended: the same, for a tab_complete on a buffer of more than one
\* character; on a shorter buffer tab_complete does nothing.
C24_Cycling ==
    [][/\ (tab_complete /\ ~CompletionIsEmpty(completion) /\ Len(buffer) > 1) => CycleStep
       /\ (tab_complete /\ Len(buffer) <= 1) => UNCHANGED <<buffer, completion>>
       /\ PushClears]_vars

\* Both options were offered and the base string is back in the buffer.
C24_Witness ==
    /\ last_op.op = "tab_complete"
    /\ Len(completion.options) = 2
    /\ completion.index = 0
    /\ buffer = StringChars(completion.base)
    /\ Len(buffer) > 1


\* new is old with c inserted at the 0-based index i, the rest kept in order.
InsertedAt(old, new, i, c) ==
    /\ Len(new) = Len(old) + 1
    /\ i < Len(new)
    /\ new[i + 1] = c
    /\ \A k \in 1..i : new[k] = old[k]
    /\ \A k \in (i + 2)..Len(new) : new[k] = old[k - 1]

\* new is old without the 0-based range [a, b), the rest kept in order.
RangeDropped(old, new, a, b) ==
    /\ a <= b
    /\ b <= Len(old)
    /\ Len(new) = Len(old) - (b - a)
    /\ \A k \in 1..a : new[k] = old[k]
    /\ \A k \in (a + 1)..Len(new) : new[k] = old[k + (b - a)]

\* C25: single-character edits.  push_key(c) inserts c at the cursor index and
\* advances the cursor by one; remove deletes the character before the cursor
\* and moves the cursor back by one, and changes nothing at cursor 0;
\* delete_right deletes the character at the cursor and keeps the cursor, and
\* changes nothing at the end of the line.
C25_EditStep ==
    /\ (\E c \in EditChars : push_key(c))
          => /\ \E c \in EditChars : InsertedAt(buffer, buffer', cursor_pos, c)
             /\ cursor_pos' = cursor_pos + 1
    /\ remove
          => IF cursor_pos = 0
             THEN UNCHANGED <<buffer, cursor_pos>>
             ELSE /\ RangeDropped(buffer, buffer', cursor_pos - 1, cursor_pos)
                  /\ cursor_pos' = cursor_pos - 1
    /\ delete_right
          => /\ cursor_pos' = cursor_pos
             /\ IF cursor_pos >= Len(buffer)
                THEN buffer' = buffer
                ELSE RangeDropped(buffer, buffer', cursor_pos, cursor_pos + 1)

C25_SingleEdits == [][C25_EditStep]_vars

\* The targets of the word movements as the claim words them.
SpaceAt(buf, i) == i < Len(buf) /\ buf[i + 1] = CharSpace

WordRightTarget(buf, pos) ==
    LET from == Min2(pos + 1, Len(buf))
        found == {i \in from..(Len(buf) - 1) : SpaceAt(buf, i)}
    IN IF found # {} THEN SetMin(found) ELSE Len(buf)

WordLeftTarget(buf, pos) ==
    LET below == Max2(pos, 1) - 1
        found == {i \in 0..(below - 1) : SpaceAt(buf, i)}
    IN IF found # {} THEN SetMax(found) + 1 ELSE 0

\* C26: word movement.  move_word_right puts the cursor on the next space at
\* or after min(cursor + 1, len), or at len; move_word_left puts it just after
\* the last space below max(cursor, 1) - 1, or at 0; the first moves the
\* cursor forward unless it is at len, the second backward unless it is at 0,
\* and neither changes the buffer nor fails.
C26_WordStep ==
    /\ move_word_right
          => /\ ~input_panicked'
             /\ buffer' = buffer
             /\ cursor_pos' = WordRightTarget(buffer, cursor_pos)
             /\ cursor_pos # Len(buffer) => cursor_pos' > cursor_pos
    /\ move_word_left
          => /\ ~input_panicked'
             /\ buffer' = buffer
             /\ cursor_pos' = WordLeftTarget(buffer, cursor_pos)
             /\ cursor_pos # 0 => cursor_pos' < cursor_pos

C26_WordMovement == [][C26_WordStep]_vars

\* C27: range deletes.  Each removes one contiguous range and keeps the other
\* characters in order: delete_to_end [cursor, len) with the cursor kept,
\* delete_from_start [0, cursor) with the cursor at 0, delete_word_right
\* [cursor, b) for the move_word_right target b with the cursor kept,
\* delete_word_left [b, cursor) for the move_word_left target b with the
\* cursor at b.
C27_RangeStep ==
    /\ delete_to_end
          => /\ RangeDropped(buffer, buffer', cursor_pos, Len(buffer))
             /\ cursor_pos' = cursor_pos
    /\ delete_from_start
          => /\ RangeDropped(buffer, buffer', 0, cursor_pos)
             /\ cursor_pos' = 0
    /\ delete_word_right
          => /\ RangeDropped(buffer, buffer', cursor_pos, WordRightTarget(buffer, cursor_pos))
             /\ cursor_pos' = cursor_pos
    /\ delete_word_left
          => /\ RangeDropped(buffer, buffer', WordLeftTarget(buffer, cursor_pos), cursor_pos)
             /\ cursor_pos' = WordLeftTarget(buffer, cursor_pos)

C27_RangeDeletes == [][C27_RangeStep]_vars


\* C28: in every state reachable by CommandBuffer operations the history
\* index is within 0..|history|, so previous and next index inside the
\* history, also after submit trimmed the history at its cap and after
\* submits made while navigating.
C28_IndexInHistory ==
    /\ current_index >= 0
    /\ current_index <= Len(history)
    /\ (last_op.op = "previous" /\ history # <<>>) => current_index < Len(history)

\* A submit dropped the oldest entry of a full history.
C28_Witness ==
    /\ last_op.op = "submit"
    /\ last_op.dropped = 1
    /\ Len(history) = MAX_HISTORY
    /\ current_index = MAX_HISTORY


\* C29: when two threads holding clones of the session call disconnect (or
\* close) while it is connected, neither call fails, whatever the
\* interleaving: one shuts the socket down and clears the slot, the other
\* leaves the socket alone.
C29_BothDisconnectsReturn ==
    \A t \in Threads :
        (call[t].op \in {"disconnect", "close"} /\ call[t].pre_connected)
            => pc[t] # "panicked"


\* C30: a timer event dispatched for an id that is no longer in the
\* timed-function table (remove_timed_function or reset ran after the event
\* was queued) invokes no callback, and run_timed_function returns normally.
C30_StaleTimerReturns ==
    (/\ last_call.fn = "run_timed_function"
     /\ last_call.id < next_timer_id
     /\ ~last_call.ran) => ~main_panicked


\* C31: connect(host, port) returns true only if that very call established a
\* connection to host:port, and between calls, whenever connected is true,
\* the host and port the session recorded are the endpoint of the socket in
\* the slot, also after a failed connect made while a previous connection is
\* still open.
C31_ConnectTruthful ==
    \A t \in Threads :
        (call[t].op = "connect" /\ call[t].done)
            => /\ call[t].ret => call[t].tcp_ok
               /\ connected
                    => /\ stream # NoSocket
                       /\ sockets[stream].endpoint = sess_endpoint[t]


\* C32: draft preservation.  previous moves the index up by at most one and
\* next, away from the bottom, moves it down by exactly one, so k calls of
\* next after k calls of previous end at the bottom; the next that arrives
\* there puts back the buffer that was left at the bottom, whatever was
\* edited on the way, and that draft was cached after the last submit: a
\* draft cached before a submit is never put back, and a next at the bottom
\* leaves the buffer alone.
C32_DraftStep ==
    /\ previous
          => /\ history' = history
             /\ current_index' >= current_index - 1
             /\ current_index' <= current_index
    /\ next
          => /\ history' = history
             /\ IF current_index < Len(history)
                THEN current_index' = current_index + 1
                ELSE UNCHANGED <<current_index, buffer>>
             /\ (current_index < Len(history) /\ current_index' = Len(history))
                    => /\ draft.kept = "fresh"
                       /\ buffer' = draft.chars

C32_DraftPreserved == [][C32_DraftStep]_vars

\* A draft was put back two entries up from the bottom of a full history,
\* after an earlier draft had been overtaken by a submit.
C32_Witness ==
    /\ last_op.op = "next"
    /\ draft.kept = "restored"
    /\ draft.staled
    /\ buffer = draft.chars
    /\ buffer # <<>>
    /\ current_index = Len(history)
    /\ Len(history) = MAX_HISTORY

====
